---- MODULE Spec2Model ----
(***************************************************************************)
(* Model of the SGNL host-side authorization core: the libsgnl client      *)
(* (src/c/lib/libsgnl.c), the sudo policy plugin and the PAM account       *)
(* module.  Every operator below is a translation of the C function of     *)
(* the same name.                                                          *)
(***************************************************************************)
EXTENDS Integers, Sequences, FiniteSets, TLC

(***************************************************************************)
(* Bounds of the model.                                                    *)
(***************************************************************************)
MaxArgs == 1
MaxDecisions == 2
MaxBatch == 2
MaxRequests == 1
MaxIssued == 2
MaxClock == 1

(***************************************************************************)
(* Pointers.  A char* is a string, the null char* is NULLS.  A pointer to  *)
(* a struct or to an array is a set: NULL is the empty set and a valid     *)
(* pointer is the singleton of the object pointed to.                      *)
(***************************************************************************)
NULLS == "<NULL>"
NULL == {}
Ptr(x) == {x}
Deref(p) == CHOOSE x \in p : TRUE

Range(s) == {s[i] : i \in 1..Len(s)}

SeqsUpTo(S, n) == UNION {[1..k -> S] : k \in 0..n}

(* strlen *)
strlen(s) == Len(s)

(* strncpy(dst, src, size - 1); dst[size - 1] = '\0' *)
StrCopy(src, size) ==
  IF strlen(src) <= size - 1 THEN src ELSE SubSeq(src, 1, size - 1)

(* strchr(s, c) != NULL *)
strchr(s, c) == \E i \in 1..Len(s) : SubSeq(s, i, i) = c

(* strncmp(s, prefix, strlen(prefix)) == 0 *)
HasPrefix(s, prefix) ==
  /\ Len(s) >= Len(prefix)
  /\ SubSeq(s, 1, Len(prefix)) = prefix

(***************************************************************************)
(* Result codes (libsgnl.h), sudo return codes and PAM return codes.       *)
(***************************************************************************)
SGNL_OK == 0
SGNL_DENIED == 1
SGNL_ALLOWED == 2
SGNL_ERROR == 3
SGNL_CONFIG_ERROR == 4
SGNL_NETWORK_ERROR == 5
SGNL_AUTH_ERROR == 6
SGNL_TIMEOUT_ERROR == 7
SGNL_INVALID_REQUEST == 8
SGNL_MEMORY_ERROR == 9

SUDO_RC_OK == 1
SUDO_RC_ACCEPT == 1
SUDO_RC_REJECT == 0
SUDO_RC_ERROR == -1

PAM_SUCCESS == "PAM_SUCCESS"
PAM_PERM_DENIED == "PAM_PERM_DENIED"
PAM_AUTHINFO_UNAVAIL == "PAM_AUTHINFO_UNAVAIL"

sgnl_result_to_string(result) ==
  CASE result = SGNL_OK -> "Success"
    [] result = SGNL_ALLOWED -> "Access Allowed"
    [] result = SGNL_DENIED -> "Access Denied"
    [] result = SGNL_ERROR -> "Error"
    [] result = SGNL_CONFIG_ERROR -> "Configuration Error"
    [] result = SGNL_NETWORK_ERROR -> "Network Error"
    [] result = SGNL_AUTH_ERROR -> "Authentication Error"
    [] result = SGNL_TIMEOUT_ERROR -> "Timeout Error"
    [] result = SGNL_INVALID_REQUEST -> "Invalid Request"
    [] result = SGNL_MEMORY_ERROR -> "Memory Error"
    [] OTHER -> "Unknown Error"

(***************************************************************************)
(* JSON values as json-c sees them: a tagged value.  A document that does  *)
(* not parse is JMalformed; json_tokener_parse returns a null pointer for  *)
(* it and for the JSON literal null.                                       *)
(***************************************************************************)
JMalformed == [t |-> "malformed"]
JNull == [t |-> "null"]
JStr(s) == [t |-> "string", v |-> s]
JInt(n) == [t |-> "int", v |-> n]
JBool(b) == [t |-> "boolean", v |-> b]
JArr(items) == [t |-> "array", v |-> items]
JObj(fields) == [t |-> "object", v |-> fields]
NoFields == [k \in {} |-> JNull]

json_tokener_parse(data) ==
  IF data.t \in {"malformed", "null"} THEN NULL ELSE Ptr(data)

json_object_object_get_ex(jso, key) ==
  /\ jso.t = "object"
  /\ key \in DOMAIN jso.v

json_object_object_get(jso, key) == jso.v[key]

json_object_is_type(jso, type) == jso.t = type

json_object_array_length(jso) == Len(jso.v)

(* json_object_array_get_idx: a JSON null element is a null pointer *)
json_object_array_get_idx(jso, idx) ==
  IF jso.v[idx + 1].t = "null" THEN NULL ELSE Ptr(jso.v[idx + 1])

(* json_object_get_string: NULL for a null value, the string itself for a
   string, the JSON text for a scalar *)
json_object_get_string(jso) ==
  CASE jso.t = "null" -> NULLS
    [] jso.t = "string" -> jso.v
    [] jso.t = "int" -> ToString(jso.v)
    [] jso.t = "boolean" -> IF jso.v THEN "true" ELSE "false"
    [] OTHER -> "<json>"


(***************************************************************************)
(* Logger (logging implementation appended to libsgnl.c).                  *)
(***************************************************************************)
SGNL_LOG_DEBUG == 7
SGNL_LOG_INFO == 6
SGNL_LOG_WARNING == 4
SGNL_LOG_ERROR == 3

(* the initial value of the global sgnl_logger_config *)
sgnl_logger_config_default == [min_level |-> SGNL_LOG_INFO]

sgnl_log_level_enabled(logger, level) == level <= logger.min_level

(***************************************************************************)
(* Configuration loader (common/config.c).  The configuration file is      *)
(* FileMissing, a malformed document or a JSON value.                      *)
(***************************************************************************)
SGNL_CONFIG_OK == 0
SGNL_CONFIG_FILE_NOT_FOUND == 1
SGNL_CONFIG_INVALID_JSON == 2
SGNL_CONFIG_MISSING_REQUIRED == 3
SGNL_CONFIG_INVALID_VALUE == 4
SGNL_CONFIG_MEMORY_ERROR == 5

FileMissing == [t |-> "nofile"]

(* calloc(1, sizeof(sgnl_config_t)) *)
sgnl_config_create ==
  [tenant |-> "", api_url |-> "", api_token |-> "",
   timeout_seconds |-> 0, connect_timeout_seconds |-> 0,
   ssl_verify_peer |-> FALSE, ssl_verify_host |-> FALSE, user_agent |-> "",
   debug_mode |-> FALSE, log_level |-> "",
   access_msg |-> FALSE, command_attribute |-> "", batch_evaluation |-> FALSE,
   initialized |-> FALSE, last_error |-> ""]

sgnl_config_set_defaults(config) ==
  [config EXCEPT !.timeout_seconds = 10,
                 !.connect_timeout_seconds = 3,
                 !.ssl_verify_peer = TRUE,
                 !.ssl_verify_host = TRUE,
                 !.user_agent = "SGNL-Client/1.0",
                 !.debug_mode = FALSE,
                 !.log_level = "info",
                 !.access_msg = TRUE,
                 !.command_attribute = "id",
                 !.batch_evaluation = FALSE]

(* a key that is present with the wanted JSON type *)
HasTyped(jso, key, type) ==
  /\ json_object_object_get_ex(jso, key)
  /\ json_object_is_type(json_object_object_get(jso, key), type)

(* boolean fields accept a literal boolean and the strings "true" / "1";
   a value of any other type leaves the field alone *)
BoolField(jso, key, old) ==
  IF ~json_object_object_get_ex(jso, key) THEN old
  ELSE LET value == json_object_object_get(jso, key) IN
       CASE value.t = "boolean" -> value.v
         [] value.t = "string" -> (value.v = "true" \/ value.v = "1")
         [] OTHER -> old

TypedField(jso, key, type, old) ==
  IF HasTyped(jso, key, type) THEN json_object_object_get(jso, key).v ELSE old

apply_config_values(config, root) ==
  LET sudo_obj == IF json_object_object_get_ex(root, "sudo")
                  THEN json_object_object_get(root, "sudo") ELSE JNull
      http_obj == IF json_object_object_get_ex(root, "http")
                  THEN json_object_object_get(root, "http") ELSE JNull
      http_timeout == TypedField(http_obj, "timeout", "int", config.timeout_seconds)
  IN [config EXCEPT
        !.api_url = StrCopy(TypedField(root, "api_url", "string", config.api_url), 256),
        !.api_token =
           IF HasTyped(root, "api_token", "string")
           THEN StrCopy(json_object_object_get(root, "api_token").v, 512)
           ELSE StrCopy(TypedField(root, "protected_system_token", "string",
                                   config.api_token), 512),
        !.tenant = StrCopy(TypedField(root, "tenant", "string", config.tenant), 128),
        !.access_msg = BoolField(sudo_obj, "access_msg", config.access_msg),
        !.command_attribute =
           StrCopy(TypedField(sudo_obj, "command_attribute", "string",
                              config.command_attribute), 64),
        !.batch_evaluation =
           BoolField(sudo_obj, "batch_evaluation", config.batch_evaluation),
        !.connect_timeout_seconds =
           TypedField(http_obj, "connect_timeout", "int", config.connect_timeout_seconds),
        !.ssl_verify_peer =
           TypedField(http_obj, "ssl_verify_peer", "boolean", config.ssl_verify_peer),
        !.ssl_verify_host =
           TypedField(http_obj, "ssl_verify_host", "boolean", config.ssl_verify_host),
        !.user_agent =
           StrCopy(TypedField(http_obj, "user_agent", "string", config.user_agent), 128),
        !.debug_mode = BoolField(root, "debug", config.debug_mode),
        !.timeout_seconds = TypedField(root, "timeout_seconds", "int", http_timeout),
        !.log_level = StrCopy(TypedField(root, "log_level", "string", config.log_level), 16)]

(* every configuration passes *)
sgnl_config_validate_lax(config) == SGNL_CONFIG_OK

sgnl_config_validate(config) ==
  CASE strlen(config.api_url) = 0 -> SGNL_CONFIG_MISSING_REQUIRED
    [] strlen(config.api_token) = 0 -> SGNL_CONFIG_MISSING_REQUIRED
    [] config.timeout_seconds < 1 \/ config.timeout_seconds > 300 ->
         SGNL_CONFIG_INVALID_VALUE
    [] config.connect_timeout_seconds < 1 \/ config.connect_timeout_seconds > 60 ->
         SGNL_CONFIG_INVALID_VALUE
    [] OTHER -> SGNL_CONFIG_OK

(* fopen + json_tokener_parse of the file *)
load_config_file(file) ==
  CASE file.t = "nofile" -> [rc |-> SGNL_CONFIG_FILE_NOT_FOUND, root |-> NULL]
    [] json_tokener_parse(file) = NULL -> [rc |-> SGNL_CONFIG_INVALID_JSON, root |-> NULL]
    [] OTHER -> [rc |-> SGNL_CONFIG_OK, root |-> json_tokener_parse(file)]

(* returns the result code and the configuration object as the call leaves it *)
sgnl_config_load(config, strict_validation, file) ==
  LET validated(c2, validation_result) ==
        IF validation_result # SGNL_CONFIG_OK /\ strict_validation
        THEN [rc |-> validation_result, config |-> c2]
        ELSE [rc |-> SGNL_CONFIG_OK, config |-> [c2 EXCEPT !.initialized = TRUE]]
      applied(c2) == validated(c2, sgnl_config_validate(c2))
      opened(c1, loaded) ==
        IF loaded.rc # SGNL_CONFIG_OK
        THEN [rc |-> loaded.rc,
              config |-> [c1 EXCEPT !.last_error = "Could not load config file"]]
        ELSE applied(apply_config_values(c1, Deref(loaded.root)))
  IN opened(sgnl_config_set_defaults(config), load_config_file(file))

sgnl_config_result_to_string(result) ==
  CASE result = SGNL_CONFIG_OK -> "Success"
    [] result = SGNL_CONFIG_FILE_NOT_FOUND -> "Configuration file not found"
    [] result = SGNL_CONFIG_INVALID_JSON -> "Invalid JSON in configuration file"
    [] result = SGNL_CONFIG_MISSING_REQUIRED -> "Missing required configuration field"
    [] result = SGNL_CONFIG_INVALID_VALUE -> "Invalid configuration value"
    [] result = SGNL_CONFIG_MEMORY_ERROR -> "Memory allocation error"
    [] OTHER -> "Unknown error"


(***************************************************************************)
(* Authorization client (lib/libsgnl.c).                                   *)
(***************************************************************************)

(* calloc(1, sizeof(sgnl_client_t)) *)
calloc_client ==
  [api_url |-> "", api_token |-> "", tenant |-> "",
   timeout_seconds |-> 0, connect_timeout_seconds |-> 0,
   ssl_verify_peer |-> FALSE, ssl_verify_host |-> FALSE, user_agent |-> "",
   debug_enabled |-> FALSE, initialized |-> FALSE,
   last_error |-> "", last_request_id |-> ""]

(* vsnprintf(client->last_error, sizeof(client->last_error), ...) *)
sgnl_log_error(client, message) ==
  [client EXCEPT !.last_error = StrCopy(message, 512)]

load_config_from_common_system(client, file) ==
  LET copied(result, common_config) ==
        IF result # SGNL_CONFIG_OK
        THEN [rc |-> SGNL_CONFIG_ERROR,
              client |-> sgnl_log_error(client,
                           "Failed to load config: " \o sgnl_config_result_to_string(result))]
        ELSE [rc |-> SGNL_OK,
              client |-> [client EXCEPT
                 !.api_url = StrCopy(common_config.api_url, 256),
                 !.api_token = StrCopy(common_config.api_token, 512),
                 !.tenant = StrCopy(common_config.tenant, 128),
                 !.timeout_seconds = common_config.timeout_seconds,
                 !.connect_timeout_seconds = common_config.connect_timeout_seconds,
                 !.user_agent = StrCopy(common_config.user_agent, 128),
                 !.debug_enabled = common_config.debug_mode]]
      loaded(load) == copied(load.rc, load.config)
  IN loaded(sgnl_config_load(sgnl_config_create, TRUE, file))

(* config is NULL or a pointer to a sgnl_client_config_t; file is the
   configuration file the loader finds; logger is the global
   sgnl_logger_config.  released is the client record as it was when it was
   freed on a failure path, or NULL. *)
sgnl_client_create(config, file, logger) ==
  LET c0 == [calloc_client EXCEPT !.timeout_seconds = 30,
                                  !.connect_timeout_seconds = 10,
                                  !.ssl_verify_peer = TRUE,
                                  !.ssl_verify_host = TRUE,
                                  !.user_agent = "SGNL-Client/1.0",
                                  !.debug_enabled = FALSE]
      overridden(cfg) ==
        [c0 EXCEPT
           !.timeout_seconds =
              IF cfg.timeout_seconds > 0 THEN cfg.timeout_seconds ELSE @,
           !.debug_enabled = cfg.enable_debug_logging,
           !.ssl_verify_peer = cfg.validate_ssl,
           !.ssl_verify_host = cfg.validate_ssl,
           !.user_agent =
              IF cfg.user_agent # NULLS THEN StrCopy(cfg.user_agent, 128) ELSE @]
      finished(result, c2) ==
        IF result # SGNL_OK
        THEN [client |-> NULL, logger |-> logger, released |-> Ptr(c2)]
        ELSE IF strlen(c2.api_url) = 0 \/ strlen(c2.api_token) = 0
        THEN [client |-> NULL, logger |-> logger,
              released |-> Ptr(sgnl_log_error(c2,
                             "Missing required configuration: api_url or api_token"))]
        ELSE [client |-> Ptr([c2 EXCEPT !.initialized = TRUE]),
              logger |-> IF c2.debug_enabled
                         THEN [logger EXCEPT !.min_level = SGNL_LOG_DEBUG]
                         ELSE logger,
              released |-> NULL]
      loaded(load) == finished(load.rc, load.client)
      configured(c1) == loaded(load_config_from_common_system(c1, file))
  IN configured(IF config = NULL THEN c0 ELSE overridden(Deref(config)))

(* the record freed with the token still in it *)
sgnl_client_destroy_keeping(client) == client

(* the record as free() receives it *)
sgnl_client_destroy(client) ==
  IF client # NULL THEN Ptr([Deref(client) EXCEPT !.api_token = ""]) ELSE NULL

sgnl_client_validate(client) ==
  CASE client = NULL -> SGNL_ERROR
    [] ~Deref(client).initialized -> SGNL_ERROR
    [] strlen(Deref(client).api_url) = 0 -> SGNL_CONFIG_ERROR
    [] strlen(Deref(client).api_token) = 0 -> SGNL_CONFIG_ERROR
    [] OTHER -> SGNL_OK

sgnl_client_get_last_error(client) ==
  IF client # NULL THEN Deref(client).last_error ELSE "No client"

(***************************************************************************)
(* HTTP transport.  curl is what libcurl does with the request:            *)
(*   [kind |-> "init_fail"]               curl_easy_init or calloc failed  *)
(*   [kind |-> "perform_fail", error]     curl_easy_perform != CURLE_OK    *)
(*   [kind |-> "ok", status, body]        a response was received          *)
(***************************************************************************)
device_id == "device-1"

make_http_request(client, endpoint, json_body, curl) ==
  LET wire == [url |-> "https://" \o client.tenant \o "." \o client.api_url \o endpoint,
               authorization |-> "Bearer " \o client.api_token,
               request_id |-> client.last_request_id,
               body |-> json_body]
  IN CASE curl.kind = "init_fail" -> [response |-> NULL, wire |-> <<>>]
       [] curl.kind = "perform_fail" ->
            [response |-> Ptr([status_code |-> 0,
                               error_message |-> curl.error,
                               data |-> JMalformed]),
             wire |-> <<wire>>]
       [] OTHER ->
            [response |-> Ptr([status_code |-> curl.status,
                               error_message |-> NULLS,
                               data |-> curl.body]),
             wire |-> <<wire>>]

(* calloc(1, sizeof(sgnl_access_result_t)) *)
calloc_result ==
  [result |-> 0, decision |-> "", reason |-> "", asset_id |-> "", action |-> "",
   principal_id |-> "", request_id |-> "", error_message |-> "", error_code |-> 0]

(* returns the result code and the result record as the call leaves it *)
parse_api_response(json_data, result) ==
  LET no_decisions ==
        [rc |-> SGNL_ERROR,
         result |-> [result EXCEPT !.error_message = "No decisions in response"]]
      decided(decision_str, reason_str, with_decision) ==
        IF decision_str # NULLS /\ decision_str = "Allow"
        THEN [rc |-> SGNL_ALLOWED, result |-> with_decision]
        ELSE [rc |-> SGNL_DENIED,
              result |-> IF reason_str # NULLS
                         THEN [with_decision EXCEPT !.reason = StrCopy(reason_str, 512)]
                         ELSE with_decision]
      strings(decision_str, reason_str) ==
        decided(decision_str, reason_str,
                IF decision_str # NULLS
                THEN [result EXCEPT !.decision = StrCopy(decision_str, 16)] ELSE result)
      first(decision_obj) ==
        strings(IF json_object_object_get_ex(decision_obj, "decision")
                THEN json_object_get_string(json_object_object_get(decision_obj, "decision"))
                ELSE NULLS,
                IF json_object_object_get_ex(decision_obj, "reason")
                THEN json_object_get_string(json_object_object_get(decision_obj, "reason"))
                ELSE NULLS)
      picked(decision_obj) ==
        IF decision_obj = NULL
        THEN [rc |-> SGNL_ERROR, result |-> result]
        ELSE first(Deref(decision_obj))
      listed(decisions) ==
        IF ~json_object_is_type(decisions, "array")
        THEN no_decisions
        ELSE IF json_object_array_length(decisions) = 0
        THEN [rc |-> SGNL_DENIED, result |-> [result EXCEPT !.decision = "Deny"]]
        ELSE picked(json_object_array_get_idx(decisions, 0))
      failed(error_obj) ==
        [rc |-> SGNL_ERROR,
         result |-> IF json_object_object_get_ex(error_obj, "message")
                    THEN [result EXCEPT !.error_message =
                            StrCopy(json_object_get_string(
                               json_object_object_get(error_obj, "message")), 512)]
                    ELSE result]
      document(root) ==
        IF json_object_object_get_ex(root, "error")
        THEN failed(json_object_object_get(root, "error"))
        ELSE IF ~json_object_object_get_ex(root, "decisions")
        THEN no_decisions
        ELSE listed(json_object_object_get(root, "decisions"))
      tokened(parsed) ==
        IF parsed = NULL
        THEN [rc |-> SGNL_ERROR,
              result |-> [result EXCEPT !.error_message = "Failed to parse JSON response"]]
        ELSE document(Deref(parsed))
  IN tokened(json_tokener_parse(json_data))

(* getpid() *)
pid == 4242

(* a ^ b on unsigned values *)
RECURSIVE Xor(_, _)
Xor(a, b) ==
  IF a = 0 THEN b
  ELSE IF b = 0 THEN a
  ELSE 2 * Xor(a \div 2, b \div 2) + (((a % 2) + (b % 2)) % 2)

(* printf("%0<width>x", n) *)
RECURSIVE Hex(_, _)
Hex(n, width) ==
  IF n = 0 /\ width <= 0 THEN ""
  ELSE Hex(n \div 16, width - 1) \o SubSeq("0123456789abcdef", (n % 16) + 1, (n % 16) + 1)

(* "sgnl-%08x-%04x-%04x" of the clock, the pid and their xor; the clock is
   time(NULL), which fits an unsigned int *)
generate_request_id_internal(clock) ==
  LET random_val == Xor(clock, pid) IN
  StrCopy("sgnl-" \o Hex(clock, 8) \o "-" \o Hex(pid % 65536, 4)
          \o "-" \o Hex(random_val % 65536, 4), 64)

(* malloc(64) and strcpy of the generated id: the string the caller gets *)
sgnl_generate_request_id(clock) == generate_request_id_internal(clock)

(* one element of the "queries" array of a request body *)
Query(asset_id, action) ==
  IF asset_id # NULLS THEN [assetId |-> asset_id, action |-> action]
  ELSE [action |-> action]

RequestBody(principal_id, queries) ==
  [principal |-> [id |-> principal_id, deviceId |-> device_id], queries |-> queries]

(* client is a pointer; the value is [ret, client, wire]: the returned
   result pointer, the client as the call leaves it, and the requests that
   went to the transport *)
sgnl_evaluate_access(client, principal_id, asset_id, action, now, curl) ==
  LET interpreted(c1, http, parsed) ==
        [ret |-> Ptr([parsed.result EXCEPT !.result = parsed.rc]),
         client |-> Ptr(c1), wire |-> http.wire]
      received(c1, r0, http, response) ==
        IF response.status_code # 200
        THEN [ret |-> Ptr([r0 EXCEPT
                 !.result = IF response.status_code = 401 \/ response.status_code = 403
                            THEN SGNL_AUTH_ERROR
                            ELSE IF response.status_code >= 500
                            THEN SGNL_NETWORK_ERROR
                            ELSE SGNL_ERROR,
                 !.error_code = response.status_code,
                 !.error_message =
                    StrCopy("HTTP " \o ToString(response.status_code) \o ": " \o
                            (IF response.error_message # NULLS
                             THEN response.error_message ELSE "Unknown error"), 512)]),
              client |-> Ptr(c1), wire |-> http.wire]
        ELSE interpreted(c1, http, parse_api_response(response.data, r0))
      sent(c1, r0, http) ==
        IF http.response = NULL
        THEN [ret |-> Ptr([r0 EXCEPT !.result = SGNL_NETWORK_ERROR,
                                     !.error_message = "HTTP request failed"]),
              client |-> Ptr(c1), wire |-> http.wire]
        ELSE received(c1, r0, http, Deref(http.response))
      request(c1, r0) ==
        sent(c1, r0,
             make_http_request(c1, "/access/v2/evaluations",
                               RequestBody(principal_id, <<Query(asset_id, r0.action)>>),
                               curl))
      allocated(c1) ==
        request(c1,
                [calloc_result EXCEPT
                   !.result = SGNL_ERROR,
                   !.principal_id = StrCopy(principal_id, 256),
                   !.asset_id = IF asset_id # NULLS THEN StrCopy(asset_id, 256) ELSE @,
                   !.action = IF action # NULLS THEN StrCopy(action, 64) ELSE "execute",
                   !.request_id = StrCopy(c1.last_request_id, 64)])
  IN IF client = NULL
     THEN [ret |-> NULL, client |-> client, wire |-> <<>>]
     ELSE IF ~Deref(client).initialized \/ principal_id = NULLS
     THEN [ret |-> NULL, client |-> client, wire |-> <<>>]
     ELSE allocated([Deref(client) EXCEPT
                       !.last_request_id = generate_request_id_internal(now)])

(* the value is [res, client, wire] *)
sgnl_check_access(client, principal_id, asset_id, action, now, curl) ==
  LET kind(eval) ==
        [res |-> IF eval.ret = NULL THEN SGNL_ERROR ELSE Deref(eval.ret).result,
         client |-> eval.client, wire |-> eval.wire]
  IN kind(sgnl_evaluate_access(client, principal_id, asset_id, action, now, curl))

(* every decision string counts as a grant *)
decision_kind_lax(decision_str) == SGNL_ALLOWED

(* strcmp(decision_str, "Allow") == 0 decides the result of a batch slot *)
decision_kind(decision_str) ==
  IF decision_str = "Allow" THEN SGNL_ALLOWED ELSE SGNL_DENIED

(* asset_ids and actions are pointers to arrays (actions may be NULL); the
   value is [ret, client, wire] where ret is NULL or a pointer to the
   calloc'ed array of query_count + 1 result pointers *)
sgnl_evaluate_access_batch(client, principal_id, asset_ids, actions, query_count, now, curl) ==
  LET asset(i) == Deref(asset_ids)[i + 1]
      action(i) == IF actions # NULL THEN Deref(actions)[i + 1] ELSE "execute"
      queries == [k \in 1..query_count |-> Query(asset(k - 1), action(k - 1))]
      (* the fields every slot gets *)
      base(c1, i) == [calloc_result EXCEPT
                        !.principal_id = StrCopy(principal_id, 256),
                        !.request_id = StrCopy(c1.last_request_id, 64),
                        !.asset_id = IF asset(i) # NULLS THEN StrCopy(asset(i), 256) ELSE @,
                        !.action = StrCopy(action(i), 64)]
      with_reason(r1, reason_str) ==
        IF reason_str # NULLS THEN [r1 EXCEPT !.reason = StrCopy(reason_str, 512)] ELSE r1
      with_decision(r0, decision_str, reason_str) ==
        with_reason(IF decision_str # NULLS
                    THEN [r0 EXCEPT !.decision = StrCopy(decision_str, 16),
                                    !.result = decision_kind(decision_str)]
                    ELSE r0,
                    reason_str)
      parsed_entry(r0, decision_obj) ==
        with_decision(r0,
          IF json_object_object_get_ex(decision_obj, "decision")
          THEN json_object_get_string(json_object_object_get(decision_obj, "decision"))
          ELSE NULLS,
          IF json_object_object_get_ex(decision_obj, "reason")
          THEN json_object_get_string(json_object_object_get(decision_obj, "reason"))
          ELSE NULLS)
      (* a slot built from its entry of the decisions array *)
      from_decision(slot, decision_obj) ==
        IF decision_obj = NULL THEN NULL
        ELSE Ptr(parsed_entry([slot EXCEPT !.result = SGNL_ERROR], Deref(decision_obj)))
      (* the default for a slot the response has no decision for *)
      default_denied(slot) ==
        Ptr([slot EXCEPT !.result = SGNL_DENIED, !.decision = "Deny"])
      results(c1, decisions, decision_count) ==
        [k \in 1..(query_count + 1) |->
           IF k = query_count + 1 THEN NULL
           ELSE IF k - 1 < decision_count
           THEN from_decision(base(c1, k - 1), json_object_array_get_idx(decisions, k - 1))
           ELSE default_denied(base(c1, k - 1))]
      fail(c1, http, message) ==
        [ret |-> NULL, client |-> Ptr(sgnl_log_error(c1, message)), wire |-> http.wire]
      listed(c1, http, decisions) ==
        IF ~json_object_is_type(decisions, "array")
        THEN fail(c1, http, "No decisions array in batch response")
        ELSE [ret |-> Ptr(results(c1, decisions, json_object_array_length(decisions))),
              client |-> Ptr(c1), wire |-> http.wire]
      document(c1, http, root) ==
        IF ~json_object_object_get_ex(root, "decisions")
        THEN fail(c1, http, "No decisions array in batch response")
        ELSE listed(c1, http, json_object_object_get(root, "decisions"))
      tokened(c1, http, parsed) ==
        IF parsed = NULL
        THEN fail(c1, http, "Failed to parse JSON response for batch evaluation")
        ELSE document(c1, http, Deref(parsed))
      received(c1, http, response) ==
        IF response.status_code # 200
        THEN fail(c1, http,
                  "HTTP request failed with status " \o ToString(response.status_code)
                  \o " for batch evaluation")
        ELSE tokened(c1, http, json_tokener_parse(response.data))
      sent(c1, http) ==
        IF http.response = NULL
        THEN fail(c1, http, "HTTP request failed for batch evaluation")
        ELSE received(c1, http, Deref(http.response))
      request(c1) ==
        sent(c1, make_http_request(c1, "/access/v2/evaluations",
                                   RequestBody(principal_id, queries), curl))
  IN IF client = NULL
     THEN [ret |-> NULL, client |-> client, wire |-> <<>>]
     ELSE IF \/ ~Deref(client).initialized
             \/ principal_id = NULLS
             \/ asset_ids = NULL
             \/ query_count <= 0
     THEN [ret |-> NULL, client |-> client, wire |-> <<>>]
     ELSE request([Deref(client) EXCEPT
                     !.last_request_id = generate_request_id_internal(now)])

(* the test both passes of sgnl_search_assets make on element i (from 0):
   a non-null element whose "decision" reads "Allow" *)
decision_is_allow(decisions_array, i) ==
  LET allow(decision) ==
        /\ decision # NULL
        /\ json_object_object_get_ex(Deref(decision), "decision")
        /\ json_object_get_string(json_object_object_get(Deref(decision), "decision"))
             = "Allow"
  IN allow(json_object_array_get_idx(decisions_array, i))

(* first pass: allowed_count over the elements from i on *)
RECURSIVE count_allowed(_, _)
count_allowed(decisions_array, i) ==
  IF i >= json_object_array_length(decisions_array) THEN 0
  ELSE (IF decision_is_allow(decisions_array, i) THEN 1 ELSE 0)
       + count_allowed(decisions_array, i + 1)

(* an allowed decision is entered under every name *)
asset_id_of_lax(decision) == "<json>"

(* the assetId string of a decision, NULL when it has none *)
asset_id_of(decision) ==
  IF json_object_object_get_ex(decision, "assetId")
  THEN json_object_get_string(json_object_object_get(decision, "assetId"))
  ELSE NULLS

(* second pass from element i on: asset_ids is the calloc'ed array of
   allowed_count + 1 slots, asset_index of them filled *)
RECURSIVE extract_asset_ids(_, _, _, _)
extract_asset_ids(decisions_array, i, asset_ids, asset_index) ==
  IF ~(i < json_object_array_length(decisions_array) /\ asset_index < Len(asset_ids) - 1)
  THEN [asset_ids |-> asset_ids, asset_index |-> asset_index]
  ELSE IF ~decision_is_allow(decisions_array, i)
  THEN extract_asset_ids(decisions_array, i + 1, asset_ids, asset_index)
  ELSE LET stored(asset_id) ==
             IF asset_id # NULLS
             THEN extract_asset_ids(decisions_array, i + 1,
                                    [asset_ids EXCEPT ![asset_index + 1] = asset_id],
                                    asset_index + 1)
             ELSE extract_asset_ids(decisions_array, i + 1, asset_ids, asset_index)
       IN stored(asset_id_of(Deref(json_object_array_get_idx(decisions_array, i))))

(* client is a pointer and asset_count a pointer to the caller's int; the
   value is [ret, asset_count, client, wire]: the returned array (its slots,
   NULLS for a null slot), the caller's int as the call leaves it, the
   client and the requests that went to the transport *)
sgnl_search_assets(client, principal_id, action, asset_count, curl) ==
  LET failed(c1, wire, message) ==
        [ret |-> NULL, asset_count |-> Ptr(0),
         client |-> Ptr(sgnl_log_error(c1, message)), wire |-> wire]
      extracted(c1, http, x) ==
        [ret |-> Ptr(x.asset_ids), asset_count |-> Ptr(x.asset_index),
         client |-> Ptr(c1), wire |-> http.wire]
      counted(c1, http, decisions_array, allowed_count) ==
        IF allowed_count = 0
        THEN [ret |-> Ptr(<<NULLS>>), asset_count |-> Ptr(0),
              client |-> Ptr(c1), wire |-> http.wire]
        ELSE extracted(c1, http,
                       extract_asset_ids(decisions_array, 0,
                                         [k \in 1..(allowed_count + 1) |-> NULLS], 0))
      rooted(c1, http, root) ==
        IF ~json_object_object_get_ex(root, "decisions")
        THEN failed(c1, http.wire, "No 'decisions' field in response")
        ELSE IF ~json_object_is_type(json_object_object_get(root, "decisions"), "array")
        THEN failed(c1, http.wire, "'decisions' field is not an array")
        ELSE counted(c1, http, json_object_object_get(root, "decisions"),
                     count_allowed(json_object_object_get(root, "decisions"), 0))
      tokened(c1, http, root) ==
        IF root = NULL
        THEN failed(c1, http.wire, "Failed to parse JSON response")
        ELSE rooted(c1, http, Deref(root))
      received(c1, http, response) ==
        IF response.status_code # 200
        THEN failed(c1, http.wire,
                    "HTTP request failed with status " \o ToString(response.status_code))
        ELSE tokened(c1, http, json_tokener_parse(response.data))
      sent(c1, http) ==
        IF http.response = NULL
        THEN failed(c1, http.wire, "Failed to make HTTP request")
        ELSE received(c1, http, Deref(http.response))
  IN IF client = NULL \/ principal_id = NULLS \/ asset_count = NULL
     THEN [ret |-> NULL,
           asset_count |-> IF asset_count # NULL THEN Ptr(0) ELSE asset_count,
           client |-> client, wire |-> <<>>]
     ELSE IF ~Deref(client).initialized
     THEN failed(Deref(client), <<>>, "Client not initialized")
     ELSE sent(Deref(client),
               make_http_request(Deref(client), "/access/v2/search",
                                 RequestBody(principal_id,
                                             <<Query(NULLS,
                                                     IF action # NULLS THEN action
                                                     ELSE "list")>>),
                                 curl))

(***************************************************************************)
(* What the calls hand to the logger, in order.  A message is its level,   *)
(* the component of its log context and its text; the logger prints it     *)
(* when sgnl_log_level_enabled holds of its level.                         *)
(***************************************************************************)
Msg(level, component, text) == [level |-> level, component |-> component, text |-> text]

(* sgnl_log_debug of each of the texts: nothing unless the client has
   debug_enabled *)
sgnl_log_debug(client, texts) ==
  IF client.debug_enabled
  THEN [k \in 1..Len(texts) |-> Msg(SGNL_LOG_DEBUG, "libsgnl", texts[k])]
  ELSE <<>>

SGNL_DEFAULT_CONFIG == "/etc/sgnl/config.json"

(* load is what sgnl_config_load gave *)
log_sgnl_config_load(module_name, config_path, load) ==
  <<Msg(SGNL_LOG_DEBUG, "config",
        "Loading configuration for module: "
        \o (IF module_name # NULLS THEN module_name ELSE "default")),
    Msg(SGNL_LOG_DEBUG, "config",
        "Loading configuration from: "
        \o (IF config_path # NULLS THEN config_path ELSE SGNL_DEFAULT_CONFIG))>>
  \o (CASE load.rc \in {SGNL_CONFIG_FILE_NOT_FOUND, SGNL_CONFIG_INVALID_JSON} ->
             <<Msg(SGNL_LOG_ERROR, "config",
                   "Failed to load configuration file: " \o load.config.last_error)>>
        [] load.rc # SGNL_CONFIG_OK ->
             <<Msg(SGNL_LOG_ERROR, "config",
                   "Configuration validation failed: "
                   \o sgnl_config_result_to_string(load.rc))>>
        [] OTHER ->
             <<Msg(SGNL_LOG_DEBUG, "config",
                   "Configuration loaded successfully for module: "
                   \o (IF module_name # NULLS THEN module_name ELSE "default"))>>)

log_load_config_from_common_system(config_path, file) ==
  LET loaded(load) ==
        (IF config_path # NULLS
         THEN <<Msg(SGNL_LOG_DEBUG, "libsgnl",
                    "Loading config from specified path: " \o config_path)>>
         ELSE <<>>)
        \o log_sgnl_config_load("libsgnl", config_path, load)
        \o (IF load.rc # SGNL_CONFIG_OK
            THEN <<Msg(SGNL_LOG_ERROR, "libsgnl",
                       "Failed to load config: " \o sgnl_config_result_to_string(load.rc))>>
            ELSE <<>>)
  IN loaded(sgnl_config_load(sgnl_config_create, TRUE, file))

(* created is what sgnl_client_create gave *)
log_sgnl_client_create(config, file, created) ==
  LET ended(load) ==
        CASE created.client # NULL ->
               sgnl_log_debug(Deref(created.client),
                              <<"SGNL client initialized successfully",
                                "Config: tenant=" \o Deref(created.client).tenant
                                \o ", api_url=" \o Deref(created.client).api_url>>)
               \o <<Msg(SGNL_LOG_DEBUG, "libsgnl",
                        "SGNL client created and initialized successfully")>>
          [] load.rc # SGNL_CONFIG_OK ->
               <<Msg(SGNL_LOG_ERROR, "libsgnl",
                     "Failed to load configuration from common system")>>
          [] OTHER ->
               <<Msg(SGNL_LOG_ERROR, "libsgnl",
                     "Missing required configuration: api_url or api_token")>>
  IN <<Msg(SGNL_LOG_DEBUG, "libsgnl", "Creating SGNL client")>>
     \o log_load_config_from_common_system(
          IF config = NULL THEN NULLS ELSE Deref(config).config_path, file)
     \o ended(sgnl_config_load(sgnl_config_create, TRUE, file))

log_sgnl_client_destroy(client) ==
  IF client # NULL
  THEN <<Msg(SGNL_LOG_DEBUG, "libsgnl", "Destroying SGNL client")>>
  ELSE <<>>

(* the authorization header is logged with the request *)
log_make_http_request_leaky(client, endpoint, json_body, curl) ==
  <<Msg(SGNL_LOG_DEBUG, "libsgnl", "Authorization: Bearer " \o client.api_token)>>

(* CURLE_OK, or CURLE_OPERATION_TIMEDOUT of a transfer that failed *)
curl_result(curl) == IF curl.kind = "perform_fail" THEN 28 ELSE 0

log_make_http_request(client, endpoint, json_body, curl) ==
  IF curl.kind = "init_fail" THEN <<>>
  ELSE sgnl_log_debug(client,
         <<"Making HTTP request to: https://" \o client.tenant \o "." \o client.api_url
             \o endpoint,
           "Request body: " \o ToString(json_body),
           "HTTP response: status="
             \o ToString(IF curl.kind = "ok" THEN curl.status ELSE 0)
             \o ", curl_result=" \o ToString(curl_result(curl))>>
         \o (IF curl.kind = "ok"
             THEN <<"Response body: " \o ToString(curl.body)>>
             ELSE <<>>))

(* r is what sgnl_evaluate_access gave *)
log_sgnl_evaluate_access(principal_id, asset_id, curl, r) ==
  IF r.ret = NULL THEN <<>>
  ELSE sgnl_log_debug(Deref(r.client),
         <<"Evaluating access: principal=" \o principal_id
           \o ", asset=" \o (IF asset_id # NULLS THEN asset_id ELSE "N/A")
           \o ", action=" \o Deref(r.ret).action>>)
       \o log_make_http_request(Deref(r.client), "/access/v2/evaluations",
                                RequestBody(principal_id,
                                            <<Query(asset_id, Deref(r.ret).action)>>),
                                curl)
       \o (IF curl.kind = "ok" /\ curl.status = 200
           THEN sgnl_log_debug(Deref(r.client),
                  <<"Access evaluation completed: decision=" \o Deref(r.ret).decision
                    \o ", result=" \o sgnl_result_to_string(Deref(r.ret).result)>>)
           ELSE <<>>)

(* the texts that are not NULL, in order *)
Texts(texts) == SelectSeq(texts, LAMBDA t : t # NULLS)

(* r is what sgnl_evaluate_access_batch gave; sgnl_log_error hands the
   logger the text it leaves in last_error *)
log_sgnl_evaluate_access_batch(client, principal_id, asset_ids, actions, query_count, curl, r) ==
  LET asset(i) == Deref(asset_ids)[i + 1]
      action(i) == IF actions # NULL THEN Deref(actions)[i + 1] ELSE "execute"
      queries == [k \in 1..query_count |-> Query(asset(k - 1), action(k - 1))]
      decision_count ==
        json_object_array_length(json_object_object_get(curl.body, "decisions"))
      shown(i) ==
        IF Deref(r.ret)[i + 1] = NULL THEN NULLS
        ELSE "Batch result[" \o ToString(i) \o "]: "
             \o (IF asset(i) # NULLS THEN asset(i) ELSE "N/A") \o " -> "
             \o sgnl_result_to_string(Deref(Deref(r.ret)[i + 1]).result)
      processed(n) == Texts([k \in 1..n |-> shown(k - 1)])
  IN IF client = NULL THEN <<>>
     ELSE IF \/ ~Deref(client).initialized
             \/ principal_id = NULLS
             \/ asset_ids = NULL
             \/ query_count <= 0
     THEN <<>>
     ELSE sgnl_log_debug(Deref(r.client),
            <<"Batch evaluating access: principal=" \o principal_id
              \o ", queries=" \o ToString(query_count),
              "Batch request payload: " \o ToString(RequestBody(principal_id, queries))>>)
          \o log_make_http_request(Deref(r.client), "/access/v2/evaluations",
                                   RequestBody(principal_id, queries), curl)
          \o (IF r.ret = NULL
              THEN <<Msg(SGNL_LOG_ERROR, "libsgnl", Deref(r.client).last_error)>>
              ELSE sgnl_log_debug(Deref(r.client),
                     <<"Batch response contains " \o ToString(decision_count)
                       \o " decisions">>
                     \o processed(IF decision_count < query_count
                                  THEN decision_count ELSE query_count)
                     \o <<"Batch access evaluation completed">>))

(* r is what sgnl_search_assets gave *)
log_sgnl_search_assets(client, principal_id, action, asset_count, curl, r) ==
  LET decisions_array == json_object_object_get(curl.body, "decisions")
      added == Texts([k \in 1..Len(Deref(r.ret)) |->
                        IF Deref(r.ret)[k] = NULLS THEN NULLS
                        ELSE "Added allowed asset: " \o Deref(r.ret)[k]])
      found ==
        sgnl_log_debug(Deref(r.client),
          <<"Found " \o ToString(json_object_array_length(decisions_array))
            \o " decisions in response",
            "Found " \o ToString(count_allowed(decisions_array, 0)) \o " allowed assets">>
          \o (IF count_allowed(decisions_array, 0) = 0 THEN <<>>
              ELSE added
                   \o <<"Asset search completed: "
                        \o ToString(Deref(r.asset_count)) \o " assets found">>))
      failure == <<Msg(SGNL_LOG_ERROR, "libsgnl", Deref(r.client).last_error)>>
  IN IF client = NULL \/ principal_id = NULLS \/ asset_count = NULL THEN <<>>
     ELSE IF ~Deref(client).initialized THEN failure
     ELSE sgnl_log_debug(Deref(r.client),
            <<"Making asset search request to: " \o Deref(r.client).tenant \o "."
              \o Deref(r.client).api_url \o "/access/v2/search",
              "Request body: "
              \o ToString(RequestBody(principal_id,
                                      <<Query(NULLS, IF action # NULLS THEN action
                                                     ELSE "list")>>))>>)
          \o log_make_http_request(Deref(r.client), "/access/v2/search",
                                   RequestBody(principal_id,
                                               <<Query(NULLS, IF action # NULLS THEN action
                                                              ELSE "list")>>),
                                   curl)
          \o (IF ~(curl.kind = "ok" /\ curl.status = 200) THEN failure
              ELSE sgnl_log_debug(Deref(r.client),
                                  <<"Received response: " \o ToString(curl.body)>>)
                   \o (IF r.ret = NULL THEN failure ELSE found))

(***************************************************************************)
(* Sudo policy plugin.                                                     *)
(***************************************************************************)
SUDO_API_VERSION_MAJOR == 1

SUDO_CONV_ERROR_MSG == "error"
SUDO_CONV_INFO_MSG == "info"

(* one call of the host's printf function *)
sudo_log(type, message) == [type |-> type, message |-> message]

(* the value is [ok, settings]; settings is the sudo_plugin_settings_t as the
   call leaves it *)
load_sudo_settings(file) ==
  LET defaults == [debug_enabled |-> FALSE, access_msg_enabled |-> TRUE,
                   command_attribute |-> "id"]
      extracted(result, config) ==
        IF result # SGNL_CONFIG_OK
        THEN [ok |-> FALSE, settings |-> defaults,
              printed |-> <<sudo_log(SUDO_CONV_ERROR_MSG,
                              "SGNL: Failed to load config: "
                              \o sgnl_config_result_to_string(result))>>]
        ELSE [ok |-> TRUE,
              settings |-> [debug_enabled |-> config.debug_mode,
                            access_msg_enabled |-> config.access_msg,
                            command_attribute |-> StrCopy(config.command_attribute, 64)],
              printed |-> <<>>]
      loaded(load) == extracted(load.rc, load.config)
  IN loaded(sgnl_config_load(sgnl_config_create, TRUE, file))

(* user_info is NULL or a pointer to the array of "key=value" strings;
   sudo_user is getenv("SUDO_USER"); pw_name is the name getpwuid(getuid())
   finds, NULLS when there is no entry *)
get_current_username(user_info, sudo_user, pw_name) ==
  LET entries == Deref(user_info)
      hits == IF user_info = NULL THEN {}
              ELSE {i \in 1..Len(entries) : HasPrefix(entries[i], "user=")}
      first == CHOOSE i \in hits : \A j \in hits : i <= j
      from_info == IF hits = {} THEN "unknown"
                   ELSE SubSeq(entries[first], 6, Len(entries[first]))
      username == IF from_info = "unknown"
                  THEN IF sudo_user # NULLS THEN sudo_user
                       ELSE IF pw_name # NULLS THEN pw_name ELSE "unknown"
                  ELSE from_info
  IN StrCopy(username, 256)

(* strtok(path, ":"): the non-empty runs between colons, in order *)
RECURSIVE strtok_all(_, _, _)
strtok_all(s, i, cur) ==
  IF i > Len(s)
  THEN IF cur = "" THEN <<>> ELSE <<cur>>
  ELSE IF SubSeq(s, i, i) = ":"
  THEN (IF cur = "" THEN <<>> ELSE <<cur>>) \o strtok_all(s, i + 1, "")
  ELSE strtok_all(s, i + 1, cur \o SubSeq(s, i, i))

DefaultPath == "/usr/local/sbin:/usr/local/bin:/usr/sbin:/usr/bin:/sbin:/bin"

(* path_env is getenv("PATH"); executables is the set of paths for which
   access(path, X_OK) succeeds; the value is the resolved path or NULLS *)
resolve_command_path(command, path_env, executables) ==
  IF strchr(command, "/") THEN command
  ELSE LET dirs == strtok_all(IF path_env # NULLS THEN path_env ELSE DefaultPath, 1, "")
           full_path(k) == dirs[k] \o "/" \o command
           found == {k \in 1..Len(dirs) : full_path(k) \in executables}
       IN IF found = {} THEN NULLS
          ELSE full_path(CHOOSE k \in found : \A j \in found : k <= j)

(* the array of 16 string pointers from calloc, filled from index 0; cwd is what getcwd
   returns, NULLS on failure; the value is NULL or a pointer to the array *)
build_command_info(command, path_env, executables, cwd) ==
  LET resolved_command == resolve_command_path(command, path_env, executables)
      entries == <<"command=" \o resolved_command, "runas_uid=0", "runas_gid=0">>
                 \o (IF cwd # NULLS THEN <<"cwd=" \o cwd>> ELSE <<>>)
                 \o <<"timeout=300">>
  IN IF resolved_command = NULLS THEN NULL
     ELSE Ptr([k \in 1..16 |-> IF k <= Len(entries) THEN entries[k] ELSE NULLS])

(* every argument counts, the empty ones too *)
AllArgs(argv, i) == SubSeq(argv, i, Len(argv))

(* the non-empty arguments argv[1..argc-1], in order *)
RECURSIVE NonEmptyArgs(_, _)
NonEmptyArgs(argv, i) ==
  IF i > Len(argv) THEN <<>>
  ELSE (IF argv[i] # NULLS /\ strlen(argv[i]) > 0 THEN <<argv[i]>> ELSE <<>>)
       \o NonEmptyArgs(argv, i + 1)

(* argv is the argument vector as a sequence, argv[1] being C's argv[0];
   the value is [res, client, wire, results] where results is what the batch
   evaluation returned (NULL when it was not called or failed) *)
check_sudo_access_with_args(client, username, argc, argv, now, curl) ==
  LET (* the loop runs while i < query_count && results[i] *)
      overall_result(results, stops) ==
        IF stops = {} THEN SGNL_ALLOWED
        ELSE LET stop == CHOOSE i \in stops : \A j \in stops : i <= j
             IN IF results[stop + 1] = NULL THEN SGNL_ALLOWED
                ELSE Deref(results[stop + 1]).result
      aggregated(query_count, batch, results) ==
        [res |-> overall_result(results,
                   {i \in 0..(query_count - 1) :
                      \/ results[i + 1] = NULL
                      \/ Deref(results[i + 1]).result # SGNL_ALLOWED}),
         client |-> batch.client, wire |-> batch.wire, results |-> batch.ret]
      batched(query_count, batch) ==
        IF batch.ret = NULL
        THEN [res |-> SGNL_ERROR, client |-> batch.client, wire |-> batch.wire,
              results |-> NULL]
        ELSE aggregated(query_count, batch, Deref(batch.ret))
      simple(single) ==
        [res |-> single.res, client |-> single.client, wire |-> single.wire,
         results |-> NULL]
      counted(args, query_count) ==
        IF query_count = 1
        THEN simple(sgnl_check_access(client, username, argv[1], "sudo", now, curl))
        ELSE batched(query_count,
                     sgnl_evaluate_access_batch(
                       client, username,
                       Ptr(<<argv[1]>> \o args),
                       Ptr(<<"sudo">> \o [k \in 1..Len(args) |-> argv[1]]),
                       query_count, now, curl))
      collected(args) == counted(args, 1 + Len(args))
  IN IF client = NULL \/ username = NULLS \/ argc = 0 \/ Len(argv) = 0
     THEN [res |-> SGNL_ERROR, client |-> client, wire |-> <<>>, results |-> NULL]
     ELSE collected(NonEmptyArgs(SubSeq(argv, 1, argc), 2))

(* snprintf of argv[0..argc-1] separated by blanks into command_line[1024] *)
RECURSIVE command_line(_, _)
command_line(argv, i) ==
  IF i > Len(argv) THEN ""
  ELSE (IF i > 1 THEN " " ELSE "") \o argv[i] \o command_line(argv, i + 1)

(* plugin_state before policy_open *)
plugin_state_init ==
  [envp |-> NULL, settings |-> NULL, user_info |-> NULL, sgnl_client |-> NULL,
   config |-> [debug_enabled |-> FALSE, access_msg_enabled |-> FALSE,
               command_attribute |-> ""]]

(* ps is plugin_state.  Each of command_info_out, argv_out and user_env_out
   is NULL or a pointer to the caller's variable, itself NULL or a pointer
   to an array.  env is the process environment: sudo_user, pw_name,
   path_env, executables, cwd.  In the value the three out fields are the
   parameters with the caller's variables as the call leaves them; granted
   is the outcome of the access check, or NoCheck when none was made. *)
NoCheck == -1

(* the outputs left as the caller passed them *)
outputs_untouched(r) == r

(* *command_info_out = NULL; *argv_out = NULL; *user_env_out = NULL *)
outputs_to_null(r) ==
  [r EXCEPT !.command_info_out = Ptr(NULL),
            !.argv_out = Ptr(NULL),
            !.user_env_out = Ptr(NULL)]

policy_check(ps, argc, argv, command_info_out, argv_out, user_env_out, env, now, curl) ==
  LET granted_msg(username) ==
        IF ps.config.access_msg_enabled
        THEN <<sudo_log(SUDO_CONV_INFO_MSG,
                 "SGNL: Access granted for " \o username \o " to run " \o argv[1])>>
        ELSE <<>>
      not_found(resolved_command) ==
        IF resolved_command = NULLS
        THEN <<sudo_log(SUDO_CONV_ERROR_MSG, "SGNL: Command not found: " \o argv[1])>>
        ELSE <<>>
      built(checked, username, command_info) ==
        IF command_info = NULL
        THEN [checked EXCEPT
                !.errstr = "Failed to build command information",
                !.printed = granted_msg(username)
                            \o not_found(resolve_command_path(argv[1], env.path_env,
                                                              env.executables))
                            \o <<sudo_log(SUDO_CONV_ERROR_MSG,
                                          "SGNL: Failed to build command info")>>]
        ELSE [checked EXCEPT
                !.rc = SUDO_RC_ACCEPT,
                !.printed = granted_msg(username),
                !.argv_out = Ptr(Ptr(argv)),
                !.user_env_out = Ptr(ps.envp),
                !.command_info_out = Ptr(command_info)]
      decided(checked, username, result) ==
        IF result # SGNL_ALLOWED
        THEN [checked EXCEPT
                !.rc = SUDO_RC_REJECT,
                !.errstr = "Access denied by SGNL policy",
                !.printed = <<sudo_log(SUDO_CONV_ERROR_MSG,
                                "SGNL: Access denied for " \o username \o " to run '"
                                \o StrCopy(command_line(SubSeq(argv, 1, argc), 1), 1024)
                                \o "': " \o sgnl_result_to_string(result))>>]
        ELSE built(checked, username,
                   build_command_info(argv[1], env.path_env, env.executables, env.cwd))
      checked_with(cleared, username, check) ==
        decided([cleared EXCEPT !.client = check.client, !.wire = check.wire,
                                !.granted = check.res, !.results = check.results],
                username, check.res)
      validated(cleared, username) ==
        IF argc = 0 \/ Len(argv) = 0
        THEN [cleared EXCEPT
                !.rc = SUDO_RC_REJECT,
                !.errstr = "No command specified",
                !.printed = <<sudo_log(SUDO_CONV_ERROR_MSG, "SGNL: No command specified")>>]
        ELSE IF ps.sgnl_client = NULL
        THEN [cleared EXCEPT
                !.errstr = "SGNL client not initialized",
                !.printed = <<sudo_log(SUDO_CONV_ERROR_MSG, "SGNL: Client not initialized")>>]
        ELSE IF strlen(username) = 0
        THEN [cleared EXCEPT
                !.errstr = "Cannot determine username",
                !.printed = <<sudo_log(SUDO_CONV_ERROR_MSG,
                                "SGNL: Cannot determine username")>>]
        ELSE checked_with(cleared, username,
                          check_sudo_access_with_args(ps.sgnl_client, username, argc, argv,
                                                      now, curl))
      entered(base) ==
        IF command_info_out = NULL \/ argv_out = NULL \/ user_env_out = NULL
        THEN [base EXCEPT !.errstr = "Invalid output parameters"]
        ELSE validated(outputs_to_null(base),
                       get_current_username(ps.user_info, env.sudo_user, env.pw_name))
  IN entered([rc |-> SUDO_RC_ERROR,
              command_info_out |-> command_info_out,
              argv_out |-> argv_out,
              user_env_out |-> user_env_out,
              errstr |-> NULLS, printed |-> <<>>,
              client |-> ps.sgnl_client, wire |-> <<>>,
              granted |-> NoCheck, results |-> NULL])

(* the value is [rc, ps, logger, printed, released]: the return code, the
   plugin_state and the logger as the call leaves them, the lines printed,
   and the client records freed during the call *)
policy_open(ps, version_major, settings, user_info, user_env, file, logger) ==
  LET made(with_config, created, with_client) ==
        IF created.client = NULL
        THEN [rc |-> SUDO_RC_ERROR, ps |-> with_client, logger |-> created.logger,
              printed |-> <<sudo_log(SUDO_CONV_ERROR_MSG,
                              "SGNL: Failed to initialize client")>>,
              released |-> <<Deref(created.released)>>]
        ELSE IF sgnl_client_validate(created.client) # SGNL_OK
        THEN [rc |-> SUDO_RC_ERROR,
              ps |-> [with_client EXCEPT !.sgnl_client = NULL],
              logger |-> created.logger,
              printed |-> <<sudo_log(SUDO_CONV_ERROR_MSG,
                              "SGNL: Invalid configuration: "
                              \o sgnl_client_get_last_error(created.client))>>,
              released |-> <<Deref(sgnl_client_destroy(created.client))>>]
        ELSE [rc |-> SUDO_RC_OK, ps |-> with_client, logger |-> created.logger,
              printed |-> IF with_config.config.debug_enabled
                          THEN <<sudo_log(SUDO_CONV_INFO_MSG,
                                   "SGNL: Plugin initialized successfully")>>
                          ELSE <<>>,
              released |-> <<>>]
      created_with(with_config, created) ==
        made(with_config, created, [with_config EXCEPT !.sgnl_client = created.client])
      configured(loaded, with_config) ==
        IF ~loaded.ok
        THEN [rc |-> SUDO_RC_ERROR, ps |-> with_config, logger |-> logger,
              printed |-> loaded.printed \o
                          <<sudo_log(SUDO_CONV_ERROR_MSG,
                                     "SGNL: Failed to load sudo settings")>>,
              released |-> <<>>]
        ELSE created_with(with_config, sgnl_client_create(NULL, file, logger))
      stored_with(stored, loaded) ==
        configured(loaded, [stored EXCEPT !.config = loaded.settings])
  IN IF version_major # SUDO_API_VERSION_MAJOR
     THEN [rc |-> SUDO_RC_ERROR, ps |-> ps, logger |-> logger,
           printed |-> <<sudo_log(SUDO_CONV_ERROR_MSG,
                           "SGNL plugin requires API version 1.x")>>,
           released |-> <<>>]
     ELSE stored_with([ps EXCEPT !.envp = user_env, !.settings = settings,
                                 !.user_info = user_info],
                      load_sudo_settings(file))

(* every session is accepted and nothing is handed out *)
policy_init_session_lax(ps, user_env_out) ==
  [rc |-> SUDO_RC_OK, user_env_out |-> user_env_out]

(* user_env_out is NULL or a pointer to the caller's variable *)
policy_init_session(ps, user_env_out) ==
  IF ps.sgnl_client = NULL
  THEN [rc |-> SUDO_RC_ERROR, user_env_out |-> user_env_out]
  ELSE IF ps.envp = NULL
  THEN [rc |-> SUDO_RC_ERROR, user_env_out |-> user_env_out]
  ELSE [rc |-> SUDO_RC_OK,
        user_env_out |-> IF user_env_out # NULL THEN Ptr(ps.envp) ELSE user_env_out]

(* nothing is destroyed and nothing is cleared *)
policy_close_keeping(ps) == [ps |-> ps, released |-> <<>>]

(* the value is [ps, released] *)
policy_close(ps) ==
  [ps |-> [ps EXCEPT !.sgnl_client = NULL, !.envp = NULL, !.settings = NULL,
                     !.user_info = NULL],
   released |-> IF ps.sgnl_client # NULL
                THEN <<Deref(sgnl_client_destroy(ps.sgnl_client))>> ELSE <<>>]

(***************************************************************************)
(* PAM account module.                                                     *)
(***************************************************************************)
pam_config ==
  [config_path |-> NULLS, timeout_seconds |-> 0, retry_count |-> 2,
   retry_delay_ms |-> 1000, enable_debug_logging |-> FALSE,
   validate_ssl |-> TRUE, user_agent |-> "SGNL-PAM/1.0"]

(* no early return: a client is created in every call, whether or not the
   module holds one *)
init_sgnl_client_again(client, file, logger) ==
  LET initialized(made) ==
        [rc |-> IF made.client = NULL THEN PAM_AUTHINFO_UNAVAIL ELSE PAM_SUCCESS,
         client |-> made.client, logger |-> made.logger,
         created |-> IF made.client = NULL THEN 0 ELSE 1,
         released |-> IF made.client = NULL THEN <<Deref(made.released)>> ELSE <<>>]
  IN initialized(sgnl_client_create(Ptr(pam_config), file, logger))

(* client is the module-wide sgnl_client; the value is [rc, client, logger,
   created, released] *)
init_sgnl_client(client, file, logger) ==
  LET initialized(made) ==
        IF made.client = NULL
        THEN [rc |-> PAM_AUTHINFO_UNAVAIL, client |-> NULL, logger |-> made.logger,
              created |-> 0, released |-> <<Deref(made.released)>>]
        ELSE IF sgnl_client_validate(made.client) # SGNL_OK
        THEN [rc |-> PAM_AUTHINFO_UNAVAIL, client |-> NULL, logger |-> made.logger,
              created |-> 1,
              released |-> <<Deref(sgnl_client_destroy(made.client))>>]
        ELSE [rc |-> PAM_SUCCESS, client |-> made.client, logger |-> made.logger,
              created |-> 1, released |-> <<>>]
  IN IF client # NULL
     THEN [rc |-> PAM_SUCCESS, client |-> client, logger |-> logger,
           created |-> 0, released |-> <<>>]
     ELSE initialized(sgnl_client_create(Ptr(pam_config), file, logger))

(* every outcome of the check grants *)
pam_code_granting(result) == PAM_SUCCESS

(* the switch on the result of sgnl_check_access *)
pam_code(result) ==
  CASE result = SGNL_ALLOWED -> PAM_SUCCESS
    [] result = SGNL_DENIED -> PAM_PERM_DENIED
    [] OTHER -> PAM_AUTHINFO_UNAVAIL

(* the value is [rc, client, logger, wire, result, created, released] *)
check_access(client, username, service, file, logger, now, curl) ==
  LET switched(init, check) ==
        [rc |-> pam_code(check.res),
         client |-> check.client, logger |-> init.logger,
         wire |-> check.wire, result |-> check.res,
         created |-> init.created, released |-> init.released]
      ensured(init) ==
        IF init.rc # PAM_SUCCESS
        THEN [rc |-> PAM_AUTHINFO_UNAVAIL, client |-> init.client, logger |-> init.logger,
              wire |-> <<>>, result |-> NoCheck,
              created |-> init.created, released |-> init.released]
        ELSE switched(init, sgnl_check_access(init.client, username, service, NULLS,
                                              now, curl))
  IN ensured(init_sgnl_client(client, file, logger))

(* username and service are what pam_get_user and pam_get_item leave in
   the local variables, NULLS when the item is absent *)
pam_sm_acct_mgmt(client, username, service, file, logger, now, curl) ==
  IF username = NULLS \/ service = NULLS
  THEN [rc |-> PAM_AUTHINFO_UNAVAIL, client |-> client, logger |-> logger,
        wire |-> <<>>, result |-> NoCheck, created |-> 0, released |-> <<>>]
  ELSE check_access(client, username, service, file, logger, now, curl)

(***************************************************************************)
(* What the two front ends hand to the logger, and the lines the PAM       *)
(* module hands to syslog (component "syslog"; LOG_ERR and LOG_INFO are    *)
(* the numbers of SGNL_LOG_ERROR and SGNL_LOG_INFO).                       *)
(***************************************************************************)

(* load_sudo_settings, sgnl_client_create and, when the client does not
   validate, sgnl_client_destroy *)
log_policy_open(version_major, file, logger) ==
  LET made(created) ==
        log_sgnl_client_create(NULL, file, created)
        \o (IF created.client # NULL /\ sgnl_client_validate(created.client) # SGNL_OK
            THEN log_sgnl_client_destroy(created.client)
            ELSE <<>>)
      settings(load) ==
        log_sgnl_config_load("sudo", NULLS, load)
        \o (IF load.rc # SGNL_CONFIG_OK THEN <<>>
            ELSE made(sgnl_client_create(NULL, file, logger)))
  IN IF version_major # SUDO_API_VERSION_MAJOR THEN <<>>
     ELSE settings(sgnl_config_load(sgnl_config_create, TRUE, file))

log_check_sudo_access_with_args(client, username, argc, argv, now, curl) ==
  LET counted(args, query_count) ==
        IF query_count = 1
        THEN log_sgnl_evaluate_access(
               username, argv[1], curl,
               sgnl_evaluate_access(client, username, argv[1], "sudo", now, curl))
        ELSE log_sgnl_evaluate_access_batch(
               client, username,
               Ptr(<<argv[1]>> \o args),
               Ptr(<<"sudo">> \o [k \in 1..Len(args) |-> argv[1]]),
               query_count, curl,
               sgnl_evaluate_access_batch(
                 client, username,
                 Ptr(<<argv[1]>> \o args),
                 Ptr(<<"sudo">> \o [k \in 1..Len(args) |-> argv[1]]),
                 query_count, now, curl))
      collected(args) == counted(args, 1 + Len(args))
  IN IF client = NULL \/ username = NULLS \/ argc = 0 \/ Len(argv) = 0
     THEN <<>>
     ELSE collected(NonEmptyArgs(SubSeq(argv, 1, argc), 2))

(* r is what policy_check gave *)
log_policy_check(ps, argc, argv, env, now, curl, r) ==
  IF r.granted = NoCheck THEN <<>>
  ELSE log_check_sudo_access_with_args(
         ps.sgnl_client,
         get_current_username(ps.user_info, env.sudo_user, env.pw_name),
         argc, argv, now, curl)

(* the lines policy_close prints, for the exit status and the errno that
   sudo passes *)
printed_policy_close(ps, exit_status, error, env) ==
  LET named(username) ==
        IF exit_status >= 0
        THEN <<sudo_log(SUDO_CONV_INFO_MSG,
                 "SGNL: Command completed for "
                 \o (IF username # NULLS THEN username ELSE "unknown")
                 \o " with exit status " \o ToString(exit_status))>>
        ELSE <<sudo_log(SUDO_CONV_INFO_MSG,
                 "SGNL: Command execution failed for "
                 \o (IF username # NULLS THEN username ELSE "unknown"))>>
  IN (IF ps.config.debug_enabled
      THEN named(get_current_username(ps.user_info, env.sudo_user, env.pw_name))
      ELSE <<>>)
     \o (IF error # 0
         THEN <<sudo_log(SUDO_CONV_ERROR_MSG,
                  "SGNL: Command execution error: Permission denied")>>
         ELSE <<>>)

(* the lines policy_init_session prints *)
printed_policy_init_session(ps, env) ==
  LET named(username) ==
        <<sudo_log(SUDO_CONV_INFO_MSG,
            "SGNL: Session initialized for user "
            \o (IF username # NULLS THEN username ELSE "unknown"))>>
  IN IF ps.sgnl_client = NULL
     THEN <<sudo_log(SUDO_CONV_ERROR_MSG, "SGNL: Client not initialized in init_session")>>
     ELSE IF ps.envp = NULL
     THEN <<sudo_log(SUDO_CONV_ERROR_MSG, "SGNL: No user environment available")>>
     ELSE IF ps.config.debug_enabled
     THEN named(get_current_username(ps.user_info, env.sudo_user, env.pw_name))
     ELSE <<>>

log_init_sgnl_client(client, file, logger) ==
  LET initialized(made) ==
        <<Msg(SGNL_LOG_DEBUG, "pam", "Initializing SGNL client for PAM")>>
        \o log_sgnl_client_create(Ptr(pam_config), file, made)
        \o (IF made.client = NULL
            THEN <<Msg(SGNL_LOG_ERROR, "pam", "Failed to initialize SGNL client"),
                   Msg(SGNL_LOG_ERROR, "syslog", "SGNL PAM: Failed to initialize client")>>
            ELSE <<Msg(SGNL_LOG_INFO, "pam",
                       "SGNL client created successfully for PAM module")>>
                 \o (IF sgnl_client_validate(made.client) # SGNL_OK
                     THEN <<Msg(SGNL_LOG_ERROR, "pam",
                                "Configuration validation failed: "
                                \o sgnl_client_get_last_error(made.client)),
                            Msg(SGNL_LOG_ERROR, "syslog",
                                "SGNL PAM: Invalid configuration: "
                                \o sgnl_client_get_last_error(made.client))>>
                          \o log_sgnl_client_destroy(made.client)
                     ELSE <<Msg(SGNL_LOG_INFO, "pam",
                                "SGNL client initialized successfully"),
                            Msg(SGNL_LOG_INFO, "syslog",
                                "SGNL PAM: Client initialized successfully")>>))
  IN IF client # NULL THEN <<>>
     ELSE initialized(sgnl_client_create(Ptr(pam_config), file, logger))

log_check_access(client, username, service, file, logger, now, curl) ==
  LET switched(result) ==
        CASE result = SGNL_ALLOWED ->
               <<Msg(SGNL_LOG_INFO, "pam", "Access granted for user [" \o username \o "]"),
                 Msg(SGNL_LOG_INFO, "syslog",
                     "SGNL PAM: Access granted for [" \o username \o "]")>>
          [] result = SGNL_DENIED ->
               <<Msg(SGNL_LOG_INFO, "pam", "Access denied for user [" \o username \o "]"),
                 Msg(SGNL_LOG_INFO, "syslog",
                     "SGNL PAM: Access denied for [" \o username \o "]")>>
          [] OTHER ->
               <<Msg(SGNL_LOG_ERROR, "pam",
                     "Access check error for user [" \o username \o "]: "
                     \o sgnl_result_to_string(result)),
                 Msg(SGNL_LOG_ERROR, "syslog",
                     "SGNL PAM: Error for [" \o username \o "]: "
                     \o sgnl_result_to_string(result))>>
      evaluated(eval) ==
        log_sgnl_evaluate_access(username, service, curl, eval)
        \o switched(IF eval.ret = NULL THEN SGNL_ERROR ELSE Deref(eval.ret).result)
      ensured(init) ==
        IF init.rc # PAM_SUCCESS THEN <<>>
        ELSE <<Msg(SGNL_LOG_INFO, "pam",
                   "Checking access for user [" \o username \o "] service ["
                   \o service \o "]"),
               Msg(SGNL_LOG_INFO, "syslog",
                   "SGNL PAM: Checking access for user [" \o username \o "] service ["
                   \o service \o "]")>>
             \o evaluated(sgnl_evaluate_access(init.client, username, service, NULLS,
                                               now, curl))
  IN log_init_sgnl_client(client, file, logger)
     \o ensured(init_sgnl_client(client, file, logger))

(* no PAM_RHOST item is set: the host reads "local" *)
log_pam_sm_acct_mgmt(client, username, service, file, logger, now, curl) ==
  IF username = NULLS \/ service = NULLS
  THEN <<Msg(SGNL_LOG_ERROR, "syslog", "SGNL PAM: Missing username or service")>>
  ELSE <<Msg(SGNL_LOG_INFO, "syslog",
             "SGNL PAM: Processing account for [" \o username \o "] service ["
             \o service \o "] host [local]")>>
       \o log_check_access(client, username, service, file, logger, now, curl)

(***************************************************************************)
(* The inputs the environment can supply.                                  *)
(***************************************************************************)

(* entries of a "decisions" array: null, an object without a decision, and
   objects with a decision string *)
DecisionEntries ==
  {JNull,
   JObj(NoFields),
   JObj([decision |-> JStr("Allow")]),
   JObj([decision |-> JStr("Deny"), reason |-> JStr("sensitive path")])}

DecisionParts ==
  {NoFields, [decisions |-> JStr("none")]}
  \cup {[decisions |-> JArr(items)] : items \in SeqsUpTo(DecisionEntries, MaxDecisions)}

AllAllow == [decisions |-> JArr([k \in 1..MaxDecisions |-> JObj([decision |-> JStr("Allow")])])]

AllAllowBody == JObj(AllAllow)

(* the error bodies: with and without a message, alone and next to decisions *)
ErrorParts ==
  {[error |-> JObj([message |-> JStr("quota exceeded")])], [error |-> JObj(NoFields)]}

ResponseBodies ==
  {JMalformed}
  \cup {JObj(d) : d \in DecisionParts}
  \cup {JObj(e @@ d) : e \in ErrorParts, d \in {NoFields, AllAllow}}

ErrorStatuses == {401, 403, 404, 500}

CurlOutcomes ==
  {[kind |-> "init_fail"], [kind |-> "perform_fail", error |-> "Timeout was reached"]}
  \cup {[kind |-> "ok", status |-> 200, body |-> b] : b \in ResponseBodies}
  \cup {[kind |-> "ok", status |-> st, body |-> AllAllowBody] : st \in ErrorStatuses}

(* configuration files *)
BaseDoc ==
  [api_url |-> JStr("sgnlapis.cloud"), api_token |-> JStr("secret-token"),
   tenant |-> JStr("acme")]

ConfigFiles ==
  {FileMissing,
   JMalformed,
   JObj(BaseDoc),
   JObj(BaseDoc @@ [debug |-> JBool(TRUE), sudo |-> JObj([access_msg |-> JBool(FALSE)])]),
   JObj([api_url |-> JStr("sgnlapis.cloud")]),
   JObj(BaseDoc @@ [timeout_seconds |-> JInt(0)])}

(* what the sudo front end hands to policy_open: user_info and user_env *)
HostEnvp == Ptr(<<"TERM=xterm">>)

OpenArgs ==
  {[user_info |-> Ptr(<<"uid=1000", "user=alice">>), user_env |-> HostEnvp],
   [user_info |-> Ptr(<<"uid=1000", "user=unknown">>), user_env |-> HostEnvp],
   [user_info |-> Ptr(<<"uid=1000">>), user_env |-> HostEnvp],
   [user_info |-> Ptr(<<"user=">>), user_env |-> HostEnvp],
   [user_info |-> NULL, user_env |-> NULL]}

(* the user_info the front end may hand over in a given environment: with
   SUDO_USER set, with or without a user= entry; with only the password
   database to go by, without one *)
OpenArgsIn(env) ==
  {a \in OpenArgs :
     CASE env.sudo_user # NULLS ->
            a.user_info \in {Ptr(<<"uid=1000">>), Ptr(<<"uid=1000", "user=alice">>),
                             Ptr(<<"uid=1000", "user=unknown">>)}
       [] env.pw_name # NULLS -> a.user_info = Ptr(<<"uid=1000">>)
       [] OTHER -> a.user_info \notin {Ptr(<<"uid=1000">>),
                                       Ptr(<<"uid=1000", "user=unknown">>)}}

(* argument vectors *)
Commands == {"ls", "./run"}
ArgValues == {"", "-l"}

ArgVectors ==
  {<<>>, <<"ls", "-l", "", "-a">>}
  \cup {<<"ls">> \o rest : rest \in SeqsUpTo(ArgValues, MaxArgs)}
  \cup {<<c>> \o rest : c \in Commands \ {"ls"}, rest \in SeqsUpTo({"-l"}, 1)}

(* the process environment of a policy_check call *)
PrincipalEnvs ==
  {[sudo_user |-> "bob", pw_name |-> "carol"],
   [sudo_user |-> NULLS, pw_name |-> "carol"],
   [sudo_user |-> NULLS, pw_name |-> NULLS]}

ExecEnvs ==
  {[path_env |-> NULLS, executables |-> {"/usr/bin/ls", "/bin/ls"}, cwd |-> "/home/alice"],
   [path_env |-> "/opt/bin:/bin", executables |-> {"/usr/bin/ls", "/bin/ls"},
    cwd |-> NULLS],
   [path_env |-> "/opt/bin", executables |-> {"/usr/bin/ls"}, cwd |-> "/home/alice"]}

(* the caller's out parameters of policy_check: each is NULL or points to a
   variable that holds NULL or a stale pointer *)
StalePtr == Ptr(<<"stale">>)

OutParams ==
  {[command_info_out |-> Ptr(StalePtr), argv_out |-> Ptr(StalePtr),
    user_env_out |-> Ptr(StalePtr)],
   [command_info_out |-> Ptr(StalePtr), argv_out |-> NULL,
    user_env_out |-> Ptr(NULL)],
   [command_info_out |-> NULL, argv_out |-> NULL, user_env_out |-> NULL]}

(* library callers *)
Principals == {NULLS, "", "alice"}

(* the asset and the action of a single query *)
QueryArgs ==
  {[asset_id |-> "asset1", action |-> "read"],
   [asset_id |-> "asset1", action |-> NULLS],
   [asset_id |-> NULLS, action |-> "read"]}

(* asset arrays of every length up to MaxBatch; the same asset occurs twice *)
BatchAssetArrays ==
  {NULL}
  \cup {Ptr([k \in 1..n |-> IF k = 2 THEN "asset2" ELSE "asset1"]) : n \in 1..MaxBatch}

BatchActions(n) == {NULL, Ptr([k \in 1..n |-> IF k = 1 THEN "read" ELSE "write"])}

(* entries of the "decisions" array of a search response: null, allowed
   assets, an allowed decision that names no asset, a denied asset *)
SearchEntries ==
  {JNull,
   JObj([decision |-> JStr("Allow"), assetId |-> JStr("asset1")]),
   JObj([decision |-> JStr("Allow"), assetId |-> JStr("asset2")]),
   JObj([decision |-> JStr("Allow")]),
   JObj([decision |-> JStr("Deny"), assetId |-> JStr("asset3")])}

SearchBodies ==
  {JMalformed, JObj(NoFields), JObj([decisions |-> JStr("none")])}
  \cup {JObj([decisions |-> JArr(items)]) : items \in SeqsUpTo(SearchEntries, MaxDecisions)}

SearchOutcomes ==
  {[kind |-> "init_fail"], [kind |-> "perform_fail", error |-> "Timeout was reached"]}
  \cup {[kind |-> "ok", status |-> 200, body |-> b] : b \in SearchBodies}
  \cup {[kind |-> "ok", status |-> st, body |-> AllAllowBody] : st \in ErrorStatuses}

SearchActions == {NULLS, "execute"}

(* what sudo passes to policy_close: the exit status of the command, or -1
   with the errno of a command that could not be run *)
ExitStatuses == {0, -1}
Errnos == {0, 13}

(* the caller's int: no pointer, or a pointer to an int that holds 7 *)
AssetCounts == {NULL, Ptr(7)}

ClientConfigs ==
  {NULL,
   Ptr([config_path |-> "/tmp/test_config.json", timeout_seconds |-> 30,
        retry_count |-> 3, retry_delay_ms |-> 1000, enable_debug_logging |-> TRUE,
        validate_ssl |-> TRUE, user_agent |-> "SGNL-Test/1.0"])}

PamUsers == {NULLS, "alice"}
PamServices == {NULLS, "sshd"}

(***************************************************************************)
(* State.                                                                  *)
(*   host               which host process this is: sudo, pam or app       *)
(*   now                time(NULL)                                         *)
(*   requests           how many requests the process has sent             *)
(*   issued             the request ids the process has had so far, in     *)
(*                      order: those sgnl_generate_request_id returned and *)
(*                      those sent in an X-Request-Id header               *)
(*   environ            SUDO_USER and the password database entry          *)
(*   phase              how far the sudo front end is: unopened, opened,   *)
(*                      closed                                             *)
(*   plugin_state       the sudo plugin's static plugin_state              *)
(*   pam_sgnl_client    the PAM module's static sgnl_client                *)
(*   pam_loaded         FALSE once the module destructor has run           *)
(*   app_client         the client of a program that calls libsgnl itself  *)
(*   app_config         the configuration object a program holds between   *)
(*                      its calls of sgnl_config_load, NULL when it holds  *)
(*                      none                                               *)
(*   sgnl_logger_config the process-wide logger configuration              *)
(*   call               the call the host has just made and what it gave,  *)
(*                      until the host takes the result                    *)
(***************************************************************************)
VARIABLES host, now, requests, issued, environ, phase, plugin_state, pam_sgnl_client, pam_loaded,
          app_client, app_config, sgnl_logger_config, call

vars == <<host, now, requests, issued, environ, phase, plugin_state, pam_sgnl_client, pam_loaded,
          app_client, app_config, sgnl_logger_config, call>>

NoEnviron == [sudo_user |-> NULLS, pw_name |-> NULLS]

Init ==
  /\ host \in {"sudo", "pam", "app"}
  /\ now = 0
  /\ requests = 0
  /\ issued = <<>>
  /\ environ \in (IF host = "sudo" THEN PrincipalEnvs ELSE {NoEnviron})
  /\ phase = "unopened"
  /\ plugin_state = plugin_state_init
  /\ pam_sgnl_client = NULL
  /\ pam_loaded = TRUE
  /\ app_client = NULL
  /\ app_config = NULL
  /\ sgnl_logger_config = sgnl_logger_config_default
  /\ call = [op |-> "none"]

(* the X-Request-Id headers of the requests of one call *)
SentIds(wire) == [k \in 1..Len(wire) |-> [by |-> "request", id |-> wire[k].request_id]]

(* the host is between two calls *)
Idle == call.op = "none"

NoCurl == [kind |-> "init_fail"]
NoExecEnv == [path_env |-> NULLS, executables |-> {}, cwd |-> NULLS]

(***************************************************************************)
(* The sudo front end.                                                     *)
(***************************************************************************)
PolicyOpen ==
  /\ host = "sudo"
  /\ Idle
  /\ phase = "unopened"
  /\ \E version_major \in {SUDO_API_VERSION_MAJOR, SUDO_API_VERSION_MAJOR + 1},
        args \in OpenArgsIn(environ), file \in ConfigFiles :
       LET taken(r) ==
             /\ plugin_state' = r.ps
             /\ sgnl_logger_config' = r.logger
             /\ call' = [op |-> "policy_open", version_major |-> version_major,
                         file |-> file, rc |-> r.rc, printed |-> r.printed,
                         released |-> r.released,
                         ps |-> plugin_state, args |-> args,
                         logger |-> sgnl_logger_config,
                         logged |-> log_policy_open(version_major, file,
                                                    sgnl_logger_config)]
       IN taken(policy_open(plugin_state, version_major, NULL, args.user_info,
                            args.user_env, file, sgnl_logger_config))
  /\ phase' = "opened"
  /\ UNCHANGED <<app_config, host, now, requests, issued, environ, pam_sgnl_client, pam_loaded, app_client>>

(* the transport is consulted only when a check is made, and the executable
   search path and the working directory only when the check grants *)
PolicyCheck ==
  /\ host = "sudo"
  /\ Idle
  /\ requests < MaxRequests
  /\ phase \in {"opened", "closed"}
  /\ \E outs \in OutParams, argv \in ArgVectors, curl \in CurlOutcomes,
        xenv \in ExecEnvs \cup {NoExecEnv} :
       LET taken(r) ==
             /\ (r.granted = NoCheck) => (curl = NoCurl)
             /\ (r.granted = SGNL_ALLOWED) <=> (xenv # NoExecEnv)
             /\ plugin_state' = [plugin_state EXCEPT !.sgnl_client = r.client]
             /\ requests' = requests + Len(r.wire)
             /\ issued' = issued \o SentIds(r.wire)
             /\ call' = [op |-> "policy_check", argc |-> Len(argv), argv |-> argv,
                         outs |-> outs, env |-> environ @@ xenv, curl |-> curl,
                         ps |-> plugin_state, ret |-> r,
                         logged |-> log_policy_check(plugin_state, Len(argv), argv,
                                                     environ @@ xenv, now, curl, r)]
       IN taken(policy_check(plugin_state, Len(argv), argv, outs.command_info_out,
                             outs.argv_out, outs.user_env_out, environ @@ xenv, now, curl))
  /\ UNCHANGED <<app_config, host, now, environ, phase, pam_sgnl_client, pam_loaded, app_client,
                 sgnl_logger_config>>

PolicyInitSession ==
  /\ host = "sudo"
  /\ Idle
  /\ phase \in {"opened", "closed"}
  /\ \E user_env_out \in {NULL, Ptr(StalePtr)} :
       call' = [op |-> "policy_init_session", ps |-> plugin_state,
                user_env_out |-> user_env_out,
                ret |-> policy_init_session(plugin_state, user_env_out),
                printed |-> printed_policy_init_session(plugin_state, environ),
                logged |-> <<>>]
  /\ UNCHANGED <<app_config, host, now, requests, issued, environ, phase, plugin_state, pam_sgnl_client, pam_loaded,
                 app_client, sgnl_logger_config>>

PolicyClose ==
  /\ host = "sudo"
  /\ Idle
  /\ phase \in {"opened", "closed"}
  /\ \E exit_status \in ExitStatuses, error \in Errnos :
       LET taken(r) ==
             /\ plugin_state' = r.ps
             /\ call' = [op |-> "policy_close", phase |-> phase, ps |-> plugin_state,
                         released |-> r.released,
                         exit_status |-> exit_status, error |-> error,
                         printed |-> printed_policy_close(plugin_state, exit_status,
                                                          error, environ),
                         logged |-> log_sgnl_client_destroy(plugin_state.sgnl_client)]
       IN taken(policy_close(plugin_state))
  /\ phase' = "closed"
  /\ UNCHANGED <<app_config, host, now, requests, issued, environ, pam_sgnl_client, pam_loaded, app_client,
                 sgnl_logger_config>>

(***************************************************************************)
(* The PAM host.                                                           *)
(***************************************************************************)
PamAcctMgmt ==
  /\ host = "pam"
  /\ Idle
  /\ requests < MaxRequests
  /\ pam_loaded
  /\ \E username \in PamUsers, service \in PamServices :
     \E file \in (IF pam_sgnl_client = NULL /\ username # NULLS /\ service # NULLS
                  THEN ConfigFiles ELSE {FileMissing}) :
     \E curl \in CurlOutcomes :
       LET taken(r) ==
             /\ (r.result = NoCheck) => (curl = NoCurl)
             /\ pam_sgnl_client' = r.client
             /\ sgnl_logger_config' = r.logger
             /\ requests' = requests + Len(r.wire)
             /\ issued' = issued \o SentIds(r.wire)
             /\ call' = [op |-> "pam_sm_acct_mgmt", username |-> username,
                         service |-> service, file |-> file, curl |-> curl,
                         client |-> pam_sgnl_client, ret |-> r,
                         logger |-> sgnl_logger_config,
                         logged |-> log_pam_sm_acct_mgmt(pam_sgnl_client, username,
                                      service, file, sgnl_logger_config, now, curl)]
       IN taken(pam_sm_acct_mgmt(pam_sgnl_client, username, service, file,
                                 sgnl_logger_config, now, curl))
  /\ UNCHANGED <<app_config, host, now, environ, phase, plugin_state, pam_loaded, app_client>>

(* the module destructor *)
pam_module_cleanup ==
  /\ host = "pam"
  /\ Idle
  /\ pam_loaded
  /\ pam_loaded' = FALSE
  /\ pam_sgnl_client' = NULL
  /\ call' = [op |-> "pam_module_cleanup", client |-> pam_sgnl_client,
              released |-> IF pam_sgnl_client # NULL
                           THEN <<Deref(sgnl_client_destroy(pam_sgnl_client))>>
                           ELSE <<>>,
              logged |-> log_sgnl_client_destroy(pam_sgnl_client)]
  /\ UNCHANGED <<app_config, host, now, requests, issued, environ, phase, plugin_state, app_client,
                 sgnl_logger_config>>

(***************************************************************************)
(* A program that calls the library itself.                                *)
(***************************************************************************)
ClientCreate ==
  /\ host = "app"
  /\ Idle
  /\ app_client = NULL
  /\ \E config \in ClientConfigs, file \in ConfigFiles :
       LET taken(r) ==
             /\ app_client' = r.client
             /\ sgnl_logger_config' = r.logger
             /\ call' = [op |-> "sgnl_client_create", config |-> config, file |-> file,
                         ret |-> r.client,
                         released |-> IF r.released = NULL THEN <<>>
                                      ELSE <<Deref(r.released)>>,
                         logger |-> sgnl_logger_config,
                         logged |-> log_sgnl_client_create(config, file, r)]
       IN taken(sgnl_client_create(config, file, sgnl_logger_config))
  /\ UNCHANGED <<app_config, host, now, requests, issued, environ, phase, plugin_state, pam_sgnl_client, pam_loaded>>

ClientDestroy ==
  /\ host = "app"
  /\ Idle
  /\ app_client # NULL
  /\ app_client' = NULL
  /\ call' = [op |-> "sgnl_client_destroy", client |-> app_client,
              released |-> <<Deref(sgnl_client_destroy(app_client))>>,
              logged |-> log_sgnl_client_destroy(app_client)]
  /\ UNCHANGED <<app_config, host, now, requests, issued, environ, phase, plugin_state, pam_sgnl_client, pam_loaded,
                 sgnl_logger_config>>

CheckAccess ==
  /\ host = "app"
  /\ Idle
  /\ requests < MaxRequests
  /\ \E principal_id \in Principals, q \in QueryArgs :
     \E curl \in (IF app_client = NULL \/ principal_id = NULLS
                  THEN {NoCurl} ELSE CurlOutcomes) :
       LET taken(r) ==
             /\ app_client' = r.client
             /\ requests' = requests + Len(r.wire)
             /\ issued' = issued \o SentIds(r.wire)
             /\ call' = [op |-> "sgnl_check_access", client |-> app_client,
                         principal_id |-> principal_id, asset_id |-> q.asset_id,
                         action |-> q.action, curl |-> curl, ret |-> r,
                         logged |-> log_sgnl_evaluate_access(
                                      principal_id, q.asset_id, curl,
                                      sgnl_evaluate_access(app_client, principal_id,
                                                           q.asset_id, q.action, now,
                                                           curl))]
       IN taken(sgnl_check_access(app_client, principal_id, q.asset_id, q.action,
                                  now, curl))
  /\ UNCHANGED <<app_config, host, now, environ, phase, plugin_state, pam_sgnl_client, pam_loaded,
                 sgnl_logger_config>>

EvaluateAccessIn(limit, principals, outcomes) ==
  /\ host = "app"
  /\ Idle
  /\ requests < limit
  /\ \E principal_id \in principals, q \in QueryArgs :
     \E curl \in (IF app_client = NULL \/ principal_id = NULLS
                  THEN {NoCurl} ELSE outcomes) :
       LET taken(r) ==
             /\ app_client' = r.client
             /\ requests' = requests + Len(r.wire)
             /\ issued' = issued \o SentIds(r.wire)
             /\ call' = [op |-> "sgnl_evaluate_access", client |-> app_client,
                         principal_id |-> principal_id, asset_id |-> q.asset_id,
                         action |-> q.action, curl |-> curl, ret |-> r,
                         logged |-> log_sgnl_evaluate_access(principal_id, q.asset_id,
                                                             curl, r)]
       IN taken(sgnl_evaluate_access(app_client, principal_id, q.asset_id, q.action,
                                     now, curl))
  /\ UNCHANGED <<app_config, host, now, environ, phase, plugin_state, pam_sgnl_client, pam_loaded,
                 sgnl_logger_config>>

EvaluateAccess == EvaluateAccessIn(MaxRequests, Principals, CurlOutcomes)

EvaluateAccessBatchIn(limit, principals, outcomes) ==
  /\ host = "app"
  /\ Idle
  /\ requests < limit
  /\ \E principal_id \in principals, asset_ids \in BatchAssetArrays :
     \E query_count \in (IF asset_ids = NULL THEN {1} ELSE {0, Len(Deref(asset_ids))}) :
     \E actions \in BatchActions(query_count) :
     \E curl \in (IF \/ app_client = NULL
                     \/ principal_id = NULLS
                     \/ asset_ids = NULL
                     \/ query_count = 0
                  THEN {NoCurl} ELSE outcomes) :
       LET taken(r) ==
             /\ app_client' = r.client
             /\ requests' = requests + Len(r.wire)
             /\ issued' = issued \o SentIds(r.wire)
             /\ call' = [op |-> "sgnl_evaluate_access_batch", client |-> app_client,
                         principal_id |-> principal_id, asset_ids |-> asset_ids,
                         actions |-> actions, query_count |-> query_count,
                         curl |-> curl, ret |-> r,
                         logged |-> log_sgnl_evaluate_access_batch(
                                      app_client, principal_id, asset_ids, actions,
                                      query_count, curl, r)]
       IN taken(sgnl_evaluate_access_batch(app_client, principal_id, asset_ids,
                                           actions, query_count, now, curl))
  /\ UNCHANGED <<app_config, host, now, environ, phase, plugin_state, pam_sgnl_client, pam_loaded,
                 sgnl_logger_config>>

EvaluateAccessBatch == EvaluateAccessBatchIn(MaxRequests, Principals, CurlOutcomes)

SearchAssetsIn(limit, principals, outcomes) ==
  /\ host = "app"
  /\ Idle
  /\ requests < limit
  /\ \E principal_id \in principals, action \in SearchActions, asset_count \in AssetCounts :
     \E curl \in (IF app_client = NULL \/ principal_id = NULLS \/ asset_count = NULL
                  THEN {NoCurl} ELSE outcomes) :
       LET taken(r) ==
             /\ app_client' = r.client
             /\ requests' = requests + Len(r.wire)
             /\ issued' = issued \o SentIds(r.wire)
             /\ call' = [op |-> "sgnl_search_assets", client |-> app_client,
                         principal_id |-> principal_id, action |-> action,
                         asset_count |-> asset_count, curl |-> curl, ret |-> r,
                         logged |-> log_sgnl_search_assets(app_client, principal_id,
                                                           action, asset_count, curl, r)]
       IN taken(sgnl_search_assets(app_client, principal_id, action, asset_count, curl))
  /\ UNCHANGED <<app_config, host, now, environ, phase, plugin_state, pam_sgnl_client, pam_loaded,
                 sgnl_logger_config>>

SearchAssets == SearchAssetsIn(MaxRequests, Principals, SearchOutcomes)

(* a program that loads a configuration of its own: sgnl_config_create,
   sgnl_config_load with the options it chooses, sgnl_config_destroy *)
ConfigLoad ==
  /\ host = "app"
  /\ Idle
  /\ \E strict_validation \in BOOLEAN, file \in ConfigFiles :
       LET taken(r) ==
             call' = [op |-> "sgnl_config_load", strict_validation |-> strict_validation,
                      file |-> file, rc |-> r.rc, config |-> r.config,
                      logged |-> log_sgnl_config_load("test-module",
                                                      "tests/test_config.json", r)]
       IN taken(sgnl_config_load(sgnl_config_create, strict_validation, file))
  /\ UNCHANGED <<app_config, host, now, requests, issued, environ, phase, plugin_state, pam_sgnl_client,
                 pam_loaded, app_client, sgnl_logger_config>>

(* the host takes the result of the call *)
Return ==
  /\ ~Idle
  /\ call' = [op |-> "none"]
  /\ UNCHANGED <<app_config, host, now, requests, issued, environ, phase, plugin_state, pam_sgnl_client, pam_loaded,
                 app_client, sgnl_logger_config>>

Next ==
  \/ Return
  \/ PolicyOpen
  \/ PolicyCheck
  \/ PolicyInitSession
  \/ PolicyClose
  \/ PamAcctMgmt
  \/ pam_module_cleanup
  \/ ClientCreate
  \/ ClientDestroy
  \/ CheckAccess
  \/ EvaluateAccess
  \/ EvaluateAccessBatch
  \/ SearchAssets
  \/ ConfigLoad

Spec == Init /\ [][Next]_vars

(***************************************************************************)
(* A program that asks for request ids and sends several requests while    *)
(* the clock runs: at most MaxIssued ids, the clock up to MaxClock.        *)
(***************************************************************************)

(* the decision service answers, or the transfer fails *)
IdOutcomes ==
  {[kind |-> "perform_fail", error |-> "Timeout was reached"],
   [kind |-> "ok", status |-> 200, body |-> AllAllowBody]}

(* a second passes *)
Tick ==
  /\ Idle
  /\ now < MaxClock
  /\ now' = now + 1
  /\ UNCHANGED <<app_config, host, requests, issued, environ, phase, plugin_state, pam_sgnl_client,
                 pam_loaded, app_client, sgnl_logger_config, call>>

GenerateRequestId ==
  /\ host = "app"
  /\ Idle
  /\ Len(issued) < MaxIssued
  /\ issued' = Append(issued, [by |-> "generate", id |-> sgnl_generate_request_id(now)])
  /\ call' = [op |-> "sgnl_generate_request_id", ret |-> sgnl_generate_request_id(now)]
  /\ UNCHANGED <<app_config, host, now, requests, environ, phase, plugin_state, pam_sgnl_client,
                 pam_loaded, app_client, sgnl_logger_config>>

InitIds == Init /\ host = "app"

NextIds ==
  \/ Return
  \/ Tick
  \/ GenerateRequestId
  \/ ClientCreate
  \/ ClientDestroy
  \/ (Len(issued) < MaxIssued /\ EvaluateAccessIn(MaxIssued, {"alice"}, IdOutcomes))
  \/ (Len(issued) < MaxIssued /\ EvaluateAccessBatchIn(MaxIssued, {"alice"}, IdOutcomes))
  \/ (Len(issued) < MaxIssued /\ SearchAssetsIn(MaxIssued, {"alice"}, IdOutcomes))

SpecIds == InitIds /\ [][NextIds]_vars

(***************************************************************************)
(* A program that keeps one configuration object and loads configuration   *)
(* files into it one after the other.                                      *)
(***************************************************************************)

(* sgnl_config_load into the object the program holds; before is the object
   as the call found it *)
ConfigLoadHeld ==
  /\ host = "app"
  /\ Idle
  /\ app_config # NULL
  /\ \E strict_validation \in BOOLEAN,
        file \in ConfigFiles \cup {JObj([api_url |-> JStr("sgnlapis.cloud"),
                                        api_token |-> JStr("other-token")])} :
       LET taken(r) ==
             /\ app_config' = Ptr(r.config)
             /\ call' = [op |-> "sgnl_config_load", before |-> Deref(app_config),
                         strict_validation |-> strict_validation,
                         file |-> file, rc |-> r.rc, config |-> r.config,
                         logged |-> log_sgnl_config_load("test-module",
                                                         "tests/test_config.json", r)]
       IN taken(sgnl_config_load(Deref(app_config), strict_validation, file))
  /\ UNCHANGED <<host, now, requests, issued, environ, phase, plugin_state,
                 pam_sgnl_client, pam_loaded, app_client, sgnl_logger_config>>

(* the program has called sgnl_config_create *)
InitConfig ==
  /\ host = "app"
  /\ now = 0
  /\ requests = 0
  /\ issued = <<>>
  /\ environ = NoEnviron
  /\ phase = "unopened"
  /\ plugin_state = plugin_state_init
  /\ pam_sgnl_client = NULL
  /\ pam_loaded = TRUE
  /\ app_client = NULL
  /\ app_config = Ptr(sgnl_config_create)
  /\ sgnl_logger_config = sgnl_logger_config_default
  /\ call = [op |-> "none"]

NextConfig ==
  \/ Return
  \/ ConfigLoadHeld

SpecConfig == InitConfig /\ [][NextConfig]_vars

(***************************************************************************)
(* What a finished call shows: the request it sent and the response the    *)
(* decision service gave.                                                  *)
(***************************************************************************)

(* the "queries" array of the request the call sent *)
SentQueries(ret) == ret.wire[1].body.queries

(* the "decisions" array of an HTTP 200 response, <<>> when it has none *)
Decisions(curl) ==
  IF /\ curl.kind = "ok"
     /\ curl.status = 200
     /\ curl.body.t = "object"
     /\ "decisions" \in DOMAIN curl.body.v
     /\ curl.body.v["decisions"].t = "array"
  THEN curl.body.v["decisions"].v
  ELSE <<>>

(* the entry at position i (from 1) of the array carries a decision string *)
HasDecision(entries, i) ==
  /\ i <= Len(entries)
  /\ entries[i].t = "object"
  /\ "decision" \in DOMAIN entries[i].v
  /\ entries[i].v["decision"].t = "string"

DecisionAt(entries, i) == entries[i].v["decision"].v

(* the response carries the decision "Allow" at position i *)
AllowAt(curl, i) ==
  /\ HasDecision(Decisions(curl), i)
  /\ DecisionAt(Decisions(curl), i) = "Allow"

(* the library call reached the transport: its arguments were accepted *)
Evaluated ==
  /\ call.op \in {"sgnl_check_access", "sgnl_evaluate_access", "sgnl_evaluate_access_batch"}
  /\ call.client # NULL
  /\ call.principal_id # NULLS
  /\ call.op = "sgnl_evaluate_access_batch" =>
       (call.asset_ids # NULL /\ call.query_count > 0)

(* the batch call gave an array *)
BatchReturned ==
  /\ call.op = "sgnl_evaluate_access_batch"
  /\ call.ret.ret # NULL

(***************************************************************************)
(* C1.  No error fails open: policy_check returns ACCEPT, and              *)
(* pam_sm_acct_mgmt returns PAM_SUCCESS, only if a request was sent and    *)
(* the decision service answered it with HTTP 200 and a parseable body     *)
(* that carries the decision "Allow" at the position of every query sent.  *)
(***************************************************************************)
C1_NoFailOpen ==
  /\ (call.op = "policy_check" /\ call.ret.rc = SUDO_RC_ACCEPT) =>
       /\ Len(call.ret.wire) = 1
       /\ \A i \in 1..Len(SentQueries(call.ret)) : AllowAt(call.curl, i)
  /\ (call.op = "pam_sm_acct_mgmt" /\ call.ret.rc = PAM_SUCCESS) =>
       /\ Len(call.ret.wire) = 1
       /\ \A i \in 1..Len(SentQueries(call.ret)) : AllowAt(call.curl, i)

(***************************************************************************)
(* C2.  AND of decisions: when the sudo check sent a batch and got the     *)
(* result array back, the aggregate is Allowed if and only if each of the  *)
(* query_count slots holds an Allowed result; otherwise the aggregate is   *)
(* the kind of the first slot that is not Allowed.                         *)
(***************************************************************************)
C2_AndOfDecisions ==
  (call.op = "policy_check" /\ call.ret.results # NULL) =>
    LET results == Deref(call.ret.results)
        query_count == Len(SentQueries(call.ret))
        allowed(i) == /\ results[i] # NULL
                      /\ Deref(results[i]).result = SGNL_ALLOWED
        refused == {i \in 1..query_count : ~allowed(i)}
        first == CHOOSE i \in refused : \A j \in refused : i <= j
    IN /\ (call.ret.granted = SGNL_ALLOWED) <=> (refused = {})
       /\ (refused # {} /\ results[first] # NULL) =>
            call.ret.granted = Deref(results[first]).result

(***************************************************************************)
(* C3 as stated.  Whenever policy_check returns anything other than        *)
(* ACCEPT, each of *command_info_out, *argv_out and *user_env_out that the *)
(* caller can read is NULL.                                                *)
(***************************************************************************)
C3_AlwaysCleared ==
  (call.op = "policy_check" /\ call.ret.rc # SUDO_RC_ACCEPT) =>
    \A out \in {call.ret.command_info_out, call.ret.argv_out, call.ret.user_env_out} :
      out # NULL => Deref(out) = NULL

(***************************************************************************)
(* C3 as amended.  A policy_check call whose three out-pointers are all    *)
(* non-NULL leaves all three variables NULL whenever it returns anything   *)
(* other than ACCEPT, whatever they held before; on ACCEPT it has written  *)
(* all three: the command info it built, the argv it was given and the     *)
(* stored environment.  A call with a NULL out-pointer returns ERROR and   *)
(* writes through none of them.                                            *)
(***************************************************************************)
C3_ClearedWhenWritable ==
  call.op = "policy_check" =>
    LET r == call.ret
        writable == /\ call.outs.command_info_out # NULL
                    /\ call.outs.argv_out # NULL
                    /\ call.outs.user_env_out # NULL
    IN /\ (writable /\ r.rc # SUDO_RC_ACCEPT) =>
            /\ r.command_info_out = Ptr(NULL)
            /\ r.argv_out = Ptr(NULL)
            /\ r.user_env_out = Ptr(NULL)
       /\ (r.rc = SUDO_RC_ACCEPT) =>
            /\ writable
            /\ r.command_info_out # Ptr(NULL)
            /\ r.command_info_out =
                 Ptr(build_command_info(call.argv[1], call.env.path_env,
                                        call.env.executables, call.env.cwd))
            /\ r.argv_out = Ptr(Ptr(call.argv))
            /\ r.user_env_out = Ptr(call.ps.envp)
       /\ ~writable =>
            /\ r.rc = SUDO_RC_ERROR
            /\ r.command_info_out = call.outs.command_info_out
            /\ r.argv_out = call.outs.argv_out
            /\ r.user_env_out = call.outs.user_env_out

(* a check was made with stale values in all three variables and refused *)
C3_Witness ==
  /\ call.op = "policy_check"
  /\ call.outs.command_info_out = Ptr(StalePtr)
  /\ call.outs.argv_out = Ptr(StalePtr)
  /\ call.outs.user_env_out = Ptr(StalePtr)
  /\ call.ret.granted = SGNL_DENIED
  /\ call.ret.rc = SUDO_RC_REJECT

(***************************************************************************)
(* C4.  policy_check maps the outcome of the access check to its return    *)
(* code: ACCEPT only for Allowed, REJECT for Denied, ERROR for every       *)
(* other kind.                                                             *)
(***************************************************************************)
C4_OutcomeMapping ==
  (call.op = "policy_check" /\ call.ret.granted # NoCheck) =>
    /\ call.ret.rc = SUDO_RC_ACCEPT => call.ret.granted = SGNL_ALLOWED
    /\ call.ret.granted = SGNL_DENIED => call.ret.rc = SUDO_RC_REJECT
    /\ call.ret.granted \notin {SGNL_ALLOWED, SGNL_DENIED} => call.ret.rc = SUDO_RC_ERROR

(***************************************************************************)
(* C5.  pam_sm_acct_mgmt returns PAM_SUCCESS if and only if                *)
(* sgnl_check_access(username, service, NULL) returned Allowed,            *)
(* PAM_PERM_DENIED if and only if it returned Denied, and                  *)
(* PAM_AUTHINFO_UNAVAIL otherwise: for every error kind, and, without any  *)
(* request being sent, when the client cannot be initialized or the        *)
(* username or the service is absent.                                      *)
(***************************************************************************)
C5_PamMapping ==
  call.op = "pam_sm_acct_mgmt" =>
    LET r == call.ret
        absent == call.username = NULLS \/ call.service = NULLS
        init == init_sgnl_client(call.client, call.file, sgnl_logger_config)
        checked == sgnl_check_access(init.client, call.username, call.service, NULLS,
                                     now, call.curl)
    IN /\ r.rc \in {PAM_SUCCESS, PAM_PERM_DENIED, PAM_AUTHINFO_UNAVAIL}
       /\ (absent \/ init.rc # PAM_SUCCESS) =>
            /\ r.rc = PAM_AUTHINFO_UNAVAIL
            /\ r.wire = <<>>
       /\ (~absent /\ init.rc = PAM_SUCCESS) =>
            /\ r.rc = PAM_SUCCESS <=> checked.res = SGNL_ALLOWED
            /\ r.rc = PAM_PERM_DENIED <=> checked.res = SGNL_DENIED
            /\ r.rc = PAM_AUTHINFO_UNAVAIL <=> checked.res \notin {SGNL_ALLOWED, SGNL_DENIED}
            /\ r.wire = checked.wire

(* the service answered 401 and the module reported AUTHINFO_UNAVAIL *)
C5_Witness ==
  /\ call.op = "pam_sm_acct_mgmt"
  /\ call.curl.kind = "ok"
  /\ call.curl.status = 401
  /\ call.ret.result = SGNL_AUTH_ERROR
  /\ call.ret.rc = PAM_AUTHINFO_UNAVAIL
  /\ Len(call.ret.wire) = 1

(***************************************************************************)
(* C6.  A non-NULL array returned by sgnl_evaluate_access_batch for n      *)
(* queries has n slots and a NULL terminator, every slot holds a result,   *)
(* and slot i carries the asset and the action of query i and the decision *)
(* at position i of the response.                                          *)
(***************************************************************************)
C6_BatchShape ==
  BatchReturned =>
    LET results == Deref(call.ret.ret)
        n == call.query_count
        entries == Decisions(call.curl)
    IN /\ Len(results) = n + 1
       /\ results[n + 1] = NULL
       /\ \A i \in 1..n :
            /\ results[i] # NULL
            /\ Deref(results[i]).asset_id = Deref(call.asset_ids)[i]
            /\ Deref(results[i]).action =
                 (IF call.actions # NULL THEN Deref(call.actions)[i] ELSE "execute")
            /\ HasDecision(entries, i) =>
                 Deref(results[i]).decision = DecisionAt(entries, i)

(***************************************************************************)
(* C7.  Batch truncation: when the HTTP 200 response to n queries carries  *)
(* k < n decisions, slots k..n-1 each hold a Denied result with decision   *)
(* "Deny" and the asset and action of their own query, and slots 0..k-1    *)
(* each hold the result parsed from the decision at their position.        *)
(***************************************************************************)
C7_Truncation ==
  (BatchReturned /\ Len(Decisions(call.curl)) < call.query_count) =>
    LET results == Deref(call.ret.ret)
        n == call.query_count
        entries == Decisions(call.curl)
        k == Len(entries)
        own(i) ==
          /\ Deref(results[i]).asset_id = Deref(call.asset_ids)[i]
          /\ Deref(results[i]).action =
               (IF call.actions # NULL THEN Deref(call.actions)[i] ELSE "execute")
    IN /\ \A i \in (k + 1)..n :
            /\ results[i] # NULL
            /\ Deref(results[i]).result = SGNL_DENIED
            /\ Deref(results[i]).decision = "Deny"
            /\ own(i)
       /\ \A i \in 1..k :
            /\ results[i] # NULL
            /\ own(i)
            /\ HasDecision(entries, i) =>
                 Deref(results[i]).decision = DecisionAt(entries, i)

(***************************************************************************)
(* C8.  Whenever policy_check returns ACCEPT, the command_info it hands    *)
(* out is a null-terminated array that holds command=<path>, runas_uid=0,  *)
(* runas_gid=0, cwd=<directory> and timeout=300, the path being absolute   *)
(* and that of an existing executable.                                     *)
(***************************************************************************)
C8_CommandInfo ==
  (call.op = "policy_check" /\ call.ret.rc = SUDO_RC_ACCEPT) =>
    LET command_info == Deref(Deref(call.ret.command_info_out))
        entries == {command_info[i] : i \in 1..16} \ {NULLS}
        commands == {e \in entries : HasPrefix(e, "command=")}
        path(e) == SubSeq(e, 9, Len(e))
    IN /\ NULLS \in {command_info[i] : i \in 1..16}
       /\ commands # {}
       /\ \A e \in commands : /\ HasPrefix(path(e), "/")
                              /\ path(e) \in call.env.executables
       /\ "runas_uid=0" \in entries
       /\ "runas_gid=0" \in entries
       /\ \E e \in entries : HasPrefix(e, "cwd=")
       /\ "timeout=300" \in entries

(***************************************************************************)
(* C9.  Every result of sgnl_evaluate_access and every result in a batch   *)
(* array is Allowed if and only if its decision string is "Allow", and is  *)
(* Denied when it has any other decision string.                           *)
(***************************************************************************)
C9_DecisionString ==
  LET ok(r) == /\ r.result = SGNL_ALLOWED <=> r.decision = "Allow"
               /\ r.decision \notin {"", "Allow"} => r.result = SGNL_DENIED
      slots(array) == {Deref(array)[i] : i \in 1..Len(Deref(array))} \ {NULL}
  IN /\ (call.op = "sgnl_evaluate_access" /\ call.ret.ret # NULL) =>
          ok(Deref(call.ret.ret))
     /\ BatchReturned => \A slot \in slots(call.ret.ret) : ok(Deref(slot))
     /\ (call.op = "policy_check" /\ call.ret.results # NULL) =>
          \A slot \in slots(call.ret.results) : ok(Deref(slot))

(* a batch array holds an Allowed "Allow" result and a Denied result
   whose decision string came from the response *)
C9_Witness ==
  /\ BatchReturned
  /\ call.query_count = 2
  /\ Deref(call.ret.ret)[1] # NULL
  /\ Deref(call.ret.ret)[2] # NULL
  /\ Deref(Deref(call.ret.ret)[1]).result = SGNL_ALLOWED
  /\ Deref(Deref(call.ret.ret)[1]).decision = "Allow"
  /\ Deref(Deref(call.ret.ret)[2]).result = SGNL_DENIED
  /\ Deref(Deref(call.ret.ret)[2]).reason = "sensitive path"

(***************************************************************************)
(* C10.  The kind an evaluation yields follows from the HTTP outcome: a    *)
(* transport failure gives NetworkError, 401 and 403 give AuthError, a     *)
(* status of 500 or more gives NetworkError, any other status but 200      *)
(* gives Error with the status attached, 200 gives what parsing the body   *)
(* gives; a batch evaluation always yields results, never just NULL.       *)
(***************************************************************************)
C10_HttpMapping ==
  Evaluated =>
    LET curl == call.curl
        transport_failed == curl.kind # "ok"
        expected ==
          IF transport_failed THEN SGNL_NETWORK_ERROR
          ELSE IF curl.status = 401 \/ curl.status = 403 THEN SGNL_AUTH_ERROR
          ELSE IF curl.status >= 500 THEN SGNL_NETWORK_ERROR
          ELSE IF curl.status # 200 THEN SGNL_ERROR
          ELSE parse_api_response(curl.body, calloc_result).rc
    IN /\ call.op = "sgnl_check_access" => call.ret.res = expected
       /\ call.op = "sgnl_evaluate_access" =>
            /\ call.ret.ret # NULL
            /\ Deref(call.ret.ret).result = expected
            /\ (~transport_failed /\ curl.status # 200) =>
                 Deref(call.ret.ret).error_code = curl.status
       /\ call.op = "sgnl_evaluate_access_batch" => call.ret.ret # NULL

(***************************************************************************)
(* C11.  sgnl_check_access called with a NULL principal or with an empty   *)
(* principal returns SGNL_ERROR and sends no request, whatever the client, *)
(* the asset and the action.                                               *)
(***************************************************************************)
C11_PrincipalRequired ==
  (call.op = "sgnl_check_access" /\ call.principal_id \in {NULLS, ""}) =>
    /\ call.ret.res = SGNL_ERROR
    /\ call.ret.wire = <<>>

(***************************************************************************)
(* C12.  A policy_check call that gets as far as resolving the principal   *)
(* returns ERROR and sends no request whenever the resolved principal is   *)
(* the literal "unknown" or the empty string.                              *)
(***************************************************************************)
C12_UnknownPrincipal ==
  LET resolved ==
        /\ call.outs.command_info_out # NULL
        /\ call.outs.argv_out # NULL
        /\ call.outs.user_env_out # NULL
        /\ call.argc > 0
        /\ call.ps.sgnl_client # NULL
      username == get_current_username(call.ps.user_info, call.env.sudo_user,
                                       call.env.pw_name)
  IN (call.op = "policy_check" /\ resolved /\ username \in {"unknown", ""}) =>
       /\ call.ret.rc = SUDO_RC_ERROR
       /\ call.ret.wire = <<>>

(***************************************************************************)
(* C14.  Every client record that is released, by sgnl_client_destroy or   *)
(* on a failure path of sgnl_client_create, has an all-zero api_token at   *)
(* the moment it is freed.                                                 *)
(***************************************************************************)
C14_TokenZeroed ==
  LET released ==
        IF call.op \in {"policy_open", "policy_close", "pam_module_cleanup",
                        "sgnl_client_create", "sgnl_client_destroy"}
        THEN call.released
        ELSE IF call.op = "pam_sm_acct_mgmt" THEN call.ret.released
        ELSE <<>>
  IN \A i \in 1..Len(released) : released[i].api_token = ""

(* a client that held a token was destroyed *)
C14_Witness ==
  /\ call.op \in {"sgnl_client_destroy", "policy_close", "pam_module_cleanup"}
  /\ call.released # <<>>
  /\ strlen(Deref(IF call.op = "policy_close" THEN call.ps.sgnl_client
                  ELSE call.client).api_token) > 0

(***************************************************************************)
(* C15 as stated.  policy_open returns OK only if the API major version    *)
(* matches and the configuration file yields the sudo settings and a       *)
(* client that validates; otherwise it returns ERROR and the plugin holds  *)
(* no client, and every policy_check made while the plugin holds no client *)
(* returns ERROR without a request.                                        *)
(***************************************************************************)
C15_OpenOrError ==
  LET file == call.file
      text(key) == HasTyped(file, key, "string") /\ strlen(file.v[key].v) > 0
      number(jso, key, least, most) ==
        HasTyped(jso, key, "int") => (jso.v[key].v >= least /\ jso.v[key].v <= most)
      usable ==
        /\ file.t = "object"
        /\ text("api_url")
        /\ text("api_token") \/ text("protected_system_token")
        /\ number(file, "timeout_seconds", 1, 300)
        /\ json_object_object_get_ex(file, "http") =>
             /\ HasTyped(file, "timeout_seconds", "int")
                  \/ number(file.v["http"], "timeout", 1, 300)
             /\ number(file.v["http"], "connect_timeout", 1, 60)
  IN /\ call.op = "policy_open" =>
          /\ call.rc \in {SUDO_RC_OK, SUDO_RC_ERROR}
          /\ call.rc = SUDO_RC_OK <=>
               (call.version_major = SUDO_API_VERSION_MAJOR /\ usable)
          /\ call.rc = SUDO_RC_OK =>
               sgnl_client_validate(plugin_state.sgnl_client) = SGNL_OK
          /\ call.rc = SUDO_RC_ERROR => plugin_state.sgnl_client = NULL
     /\ (call.op = "policy_check" /\ call.ps.sgnl_client = NULL) =>
          /\ call.ret.rc = SUDO_RC_ERROR
          /\ call.ret.wire = <<>>

(***************************************************************************)
(* C15 as amended.  The same for policy_open; a policy_check made while    *)
(* the plugin holds no client sends no request and returns ERROR, except   *)
(* that a call with valid out-pointers and no command (argc = 0) returns   *)
(* REJECT, the command being tested before the client.                     *)
(***************************************************************************)
C15_OpenOrNoRequest ==
  LET file == call.file
      text(key) == HasTyped(file, key, "string") /\ strlen(file.v[key].v) > 0
      number(jso, key, least, most) ==
        HasTyped(jso, key, "int") => (jso.v[key].v >= least /\ jso.v[key].v <= most)
      usable ==
        /\ file.t = "object"
        /\ text("api_url")
        /\ text("api_token") \/ text("protected_system_token")
        /\ number(file, "timeout_seconds", 1, 300)
        /\ json_object_object_get_ex(file, "http") =>
             /\ HasTyped(file, "timeout_seconds", "int")
                  \/ number(file.v["http"], "timeout", 1, 300)
             /\ number(file.v["http"], "connect_timeout", 1, 60)
      no_command ==
        /\ call.outs.command_info_out # NULL
        /\ call.outs.argv_out # NULL
        /\ call.outs.user_env_out # NULL
        /\ call.argc = 0
  IN /\ call.op = "policy_open" =>
          /\ call.rc \in {SUDO_RC_OK, SUDO_RC_ERROR}
          /\ call.rc = SUDO_RC_OK <=>
               (call.version_major = SUDO_API_VERSION_MAJOR /\ usable)
          /\ call.rc = SUDO_RC_OK =>
               sgnl_client_validate(plugin_state.sgnl_client) = SGNL_OK
          /\ call.rc = SUDO_RC_ERROR => plugin_state.sgnl_client = NULL
     /\ (call.op = "policy_check" /\ call.ps.sgnl_client = NULL) =>
          /\ call.ret.wire = <<>>
          /\ call.ret.granted = NoCheck
          /\ call.ret.rc = (IF no_command THEN SUDO_RC_REJECT ELSE SUDO_RC_ERROR)

(* policy_open failed and a command was then checked *)
C15_Witness ==
  /\ call.op = "policy_check"
  /\ phase = "opened"
  /\ call.ps.sgnl_client = NULL
  /\ call.outs.argv_out # NULL
  /\ call.argc > 0
  /\ call.ret.rc = SUDO_RC_ERROR

(***************************************************************************)
(* C16 as stated.  policy_close destroys the client the plugin holds and   *)
(* clears the client, envp, settings and user_info references; once the    *)
(* plugin is closed they stay cleared, every policy_check and              *)
(* policy_init_session returns ERROR without a request, and another        *)
(* policy_close destroys nothing.                                          *)
(***************************************************************************)
C16_ClosedForGood ==
  /\ call.op = "policy_close" =>
       /\ call.released =
            (IF call.ps.sgnl_client # NULL
             THEN <<[Deref(call.ps.sgnl_client) EXCEPT !.api_token = ""]>> ELSE <<>>)
       /\ call.phase = "closed" => call.released = <<>>
  /\ phase = "closed" =>
       /\ plugin_state.sgnl_client = NULL
       /\ plugin_state.envp = NULL
       /\ plugin_state.settings = NULL
       /\ plugin_state.user_info = NULL
       /\ call.op = "policy_init_session" => call.ret.rc = SUDO_RC_ERROR
       /\ call.op = "policy_check" =>
            /\ call.ret.rc = SUDO_RC_ERROR
            /\ call.ret.wire = <<>>

(***************************************************************************)
(* C16 as amended.  The same, except that a policy_check made after the    *)
(* close with valid out-pointers and no command (argc = 0) returns REJECT; *)
(* no policy_check made after the close sends a request.                   *)
(***************************************************************************)
C16_ClosedNoRequest ==
  /\ call.op = "policy_close" =>
       /\ call.released =
            (IF call.ps.sgnl_client # NULL
             THEN <<[Deref(call.ps.sgnl_client) EXCEPT !.api_token = ""]>> ELSE <<>>)
       /\ call.phase = "closed" => call.released = <<>>
  /\ phase = "closed" =>
       /\ plugin_state.sgnl_client = NULL
       /\ plugin_state.envp = NULL
       /\ plugin_state.settings = NULL
       /\ plugin_state.user_info = NULL
       /\ call.op = "policy_init_session" => call.ret.rc = SUDO_RC_ERROR
       /\ call.op = "policy_check" =>
            /\ call.ret.wire = <<>>
            /\ call.ret.granted = NoCheck
            /\ call.ret.rc =
                 (IF /\ call.outs.command_info_out # NULL
                     /\ call.outs.argv_out # NULL
                     /\ call.outs.user_env_out # NULL
                     /\ call.argc = 0
                  THEN SUDO_RC_REJECT ELSE SUDO_RC_ERROR)

(* the plugin was closed a second time *)
C16_Witness ==
  /\ call.op = "policy_close"
  /\ call.phase = "closed"
  /\ call.released = <<>>

(***************************************************************************)
(* C17 as stated.  policy_init_session returns OK, with *user_env_out set  *)
(* to the envp stored by policy_open, if and only if the plugin holds an   *)
(* initialized client; otherwise it returns ERROR.                         *)
(***************************************************************************)
C17_SessionIffClient ==
  call.op = "policy_init_session" =>
    LET holds_client == sgnl_client_validate(call.ps.sgnl_client) = SGNL_OK
    IN /\ call.ret.rc \in {SUDO_RC_OK, SUDO_RC_ERROR}
       /\ call.ret.rc = SUDO_RC_OK <=> holds_client
       /\ (call.ret.rc = SUDO_RC_OK /\ call.ret.user_env_out # NULL) =>
            call.ret.user_env_out = Ptr(call.ps.envp)

(***************************************************************************)
(* C17 as amended.  policy_init_session returns OK if and only if the      *)
(* plugin holds an initialized client and the envp stored by policy_open   *)
(* is not NULL, and otherwise ERROR; on OK *user_env_out is the stored     *)
(* envp when the caller passed a variable, on ERROR the variable is left   *)
(* as it was.                                                              *)
(***************************************************************************)
C17_SessionIffClientAndEnvp ==
  call.op = "policy_init_session" =>
    LET holds_client == sgnl_client_validate(call.ps.sgnl_client) = SGNL_OK
    IN /\ call.ret.rc \in {SUDO_RC_OK, SUDO_RC_ERROR}
       /\ call.ret.rc = SUDO_RC_OK <=> (holds_client /\ call.ps.envp # NULL)
       /\ (call.ret.rc = SUDO_RC_OK /\ call.user_env_out # NULL) =>
            call.ret.user_env_out = Ptr(call.ps.envp)
       /\ (call.ret.rc = SUDO_RC_ERROR \/ call.user_env_out = NULL) =>
            call.ret.user_env_out = call.user_env_out

(* a session was initialized over a stale variable *)
C17_Witness ==
  /\ call.op = "policy_init_session"
  /\ call.user_env_out = Ptr(StalePtr)
  /\ call.ret.rc = SUDO_RC_OK
  /\ call.ret.user_env_out = Ptr(HostEnvp)

(***************************************************************************)
(* Asset search.                                                           *)
(***************************************************************************)

(* sgnl_search_assets took its arguments and the service answered with
   HTTP 200 and a body that holds a "decisions" array *)
SearchAnswered ==
  /\ call.op = "sgnl_search_assets"
  /\ call.client # NULL
  /\ call.principal_id # NULLS
  /\ call.asset_count # NULL
  /\ Deref(call.client).initialized
  /\ call.curl.kind = "ok"
  /\ call.curl.status = 200
  /\ call.curl.body.t = "object"
  /\ "decisions" \in DOMAIN call.curl.body.v
  /\ call.curl.body.v["decisions"].t = "array"

IsAllowEntry(e) ==
  /\ e.t = "object"
  /\ "decision" \in DOMAIN e.v
  /\ e.v["decision"] = JStr("Allow")

NamesAsset(e) ==
  /\ "assetId" \in DOMAIN e.v
  /\ e.v["assetId"].t = "string"

(* the decisions of the response that read "Allow", in response order *)
AllowedEntries == SelectSeq(Decisions(call.curl), IsAllowEntry)

(* those of them that name an asset *)
NamedEntries == SelectSeq(AllowedEntries, NamesAsset)

(* the returned array holds exactly the assets of these entries, in this
   order, then a null slot, and the caller's int holds their number *)
ListOf(entries) ==
  /\ call.ret.ret # NULL
  /\ Len(Deref(call.ret.ret)) > Len(entries)
  /\ \A k \in 1..Len(entries) :
       /\ NamesAsset(entries[k])
       /\ Deref(call.ret.ret)[k] = entries[k].v["assetId"].v
  /\ Deref(call.ret.ret)[Len(entries) + 1] = NULLS
  /\ call.ret.asset_count = Ptr(Len(entries))

(* what the claim says of the action sent and of the failures *)
SearchActionAndFailures ==
  /\ (call.ret.wire # <<>> /\ call.action = NULLS) =>
       call.ret.wire[1].body.queries = <<[action |-> "list"]>>
  /\ (call.ret.wire # <<>> /\ call.action # NULLS) =>
       call.ret.wire[1].body.queries = <<[action |-> call.action]>>
  /\ ~SearchAnswered =>
       /\ call.ret.ret = NULL
       /\ call.asset_count # NULL => call.ret.asset_count = Ptr(0)

(***************************************************************************)
(* C18, as stated.  sgnl_search_assets returns a null-terminated list with *)
(* one entry for each response decision that reads "Allow", the entry      *)
(* being that decision's assetId, in response order, and *asset_count is   *)
(* the number of entries; with no "Allow" the list is empty and non-NULL   *)
(* with count 0; a NULL action is sent as "list"; every failure gives NULL *)
(* with count 0.                                                           *)
(***************************************************************************)
C18_SearchList ==
  (call.op = "sgnl_search_assets") =>
    /\ SearchAnswered => ListOf(AllowedEntries)
    /\ SearchActionAndFailures

(***************************************************************************)
(* C18, amended.  The list holds the assetId of each "Allow" decision that *)
(* names an asset, in response order; an "Allow" decision without an       *)
(* assetId string contributes no entry.  *asset_count is the number of     *)
(* entries and the slot after the last entry is null; when no decision     *)
(* contributes the list is empty and non-NULL with count 0.  A NULL action *)
(* is sent as "list".  Every failure returns NULL, with count 0 whenever   *)
(* the caller passed a count pointer.                                      *)
(***************************************************************************)
C18_SearchListNamed ==
  (call.op = "sgnl_search_assets") =>
    /\ SearchAnswered => ListOf(NamedEntries)
    /\ SearchActionAndFailures

(* two allowed assets came back in the order of the response, with a NULL
   action sent as "list" *)
C18_Witness ==
  /\ SearchAnswered
  /\ call.action = NULLS
  /\ Len(NamedEntries) = 2
  /\ call.ret.ret = Ptr(<<"asset2", "asset1", NULLS>>)
  /\ call.ret.asset_count = Ptr(2)

(***************************************************************************)
(* C19.  sgnl_config_load with strict_validation = FALSE still fails when  *)
(* the document lacks a required key (api_url or api_token), and a         *)
(* configuration is marked initialized only if both required fields are    *)
(* non-empty.                                                              *)
(***************************************************************************)
C19_RequiredKeysAlways ==
  (call.op = "sgnl_config_load") =>
    /\ (/\ ~call.strict_validation
        /\ call.file.t = "object"
        /\ ~("api_url" \in DOMAIN call.file.v /\ "api_token" \in DOMAIN call.file.v))
       => call.rc # SGNL_CONFIG_OK
    /\ call.config.initialized =>
         (call.config.api_url # "" /\ call.config.api_token # "")

(***************************************************************************)
(* C20.  Two consecutive calls of sgnl_generate_request_id in one process  *)
(* return distinct identifiers, no two separate requests of one process    *)
(* carry the same request id, and all results of one batch carry the id    *)
(* sent in that batch's X-Request-Id header.                               *)
(***************************************************************************)
C20_DistinctIds ==
  /\ \A k \in 1..(Len(issued) - 1) :
       (issued[k].by = "generate" /\ issued[k + 1].by = "generate") =>
         issued[k].id # issued[k + 1].id
  /\ \A j, k \in 1..Len(issued) :
       (j < k /\ issued[j].by = "request" /\ issued[k].by = "request") =>
         issued[j].id # issued[k].id
  /\ (BatchReturned /\ call.ret.wire # <<>>) =>
       \A i \in 1..call.query_count :
         Deref(call.ret.ret)[i] # NULL =>
           Deref(Deref(call.ret.ret)[i]).request_id = call.ret.wire[1].request_id


(***************************************************************************)
(* C13.  The API token and what the host can observe.                      *)
(*                                                                         *)
(* Two runs that differ only in the token are compared call by call: the   *)
(* call that was just made is made again with another token in the         *)
(* configuration file it reads and in the client it uses, and what the     *)
(* host can observe of it is compared.  The Authorization header on the    *)
(* wire and the api_token field of the client are where the token is       *)
(* meant to be and are not observations.                                   *)
(***************************************************************************)
TokenValues == {"secret-token", "other-token"}
TokenValuesOrEmpty == TokenValues \cup {""}

(* the configuration file with another value under "api_token" *)
FileWithToken(file, tok) ==
  IF file.t = "object" /\ HasTyped(file, "api_token", "string")
  THEN JObj([k \in DOMAIN file.v |-> IF k = "api_token" THEN JStr(tok) ELSE file.v[k]])
  ELSE file

(* the client that a configuration file with that token leaves *)
ClientWithToken(client, tok) ==
  IF client = NULL THEN NULL
  ELSE Ptr([Deref(client) EXCEPT !.api_token = StrCopy(tok, 512)])

LastErrorOf(client) == IF client = NULL THEN NULLS ELSE Deref(client).last_error

(* a request as the network sees it, the Authorization header left out *)
Unauthorized(wire) ==
  [k \in 1..Len(wire) |-> [f \in DOMAIN wire[k] \ {"authorization"} |-> wire[k][f]]]

(* what the host observes of call c when the token is tok: return values,
   results with their error_message, errstr, lines printed, messages logged,
   the last-error string and the logger the call leaves *)
Observed(c, tok) ==
  CASE c.op = "policy_open" ->
         LET seen(r) ==
               [rc |-> r.rc, printed |-> r.printed, logger |-> r.logger,
                last_error |-> LastErrorOf(r.ps.sgnl_client),
                logged |-> log_policy_open(c.version_major,
                                           FileWithToken(c.file, tok), c.logger)]
         IN seen(policy_open(c.ps, c.version_major, NULL, c.args.user_info,
                             c.args.user_env, FileWithToken(c.file, tok), c.logger))
    [] c.op = "policy_check" ->
         LET seen(ps, r) ==
               [rc |-> r.rc, errstr |-> r.errstr, printed |-> r.printed,
                command_info_out |-> r.command_info_out, argv_out |-> r.argv_out,
                user_env_out |-> r.user_env_out,
                last_error |-> LastErrorOf(r.client), sent |-> Unauthorized(r.wire),
                logged |-> log_policy_check(ps, c.argc, c.argv, c.env, now, c.curl, r)]
             swapped(ps) ==
               seen(ps, policy_check(ps, c.argc, c.argv, c.outs.command_info_out,
                                     c.outs.argv_out, c.outs.user_env_out, c.env,
                                     now, c.curl))
         IN swapped([c.ps EXCEPT !.sgnl_client = ClientWithToken(@, tok)])
    [] c.op = "policy_init_session" ->
         LET swapped(ps) ==
               [ret |-> policy_init_session(ps, c.user_env_out),
                printed |-> printed_policy_init_session(ps, environ),
                logged |-> <<>>]
         IN swapped([c.ps EXCEPT !.sgnl_client = ClientWithToken(@, tok)])
    [] c.op = "policy_close" ->
         LET swapped(ps) ==
               [printed |-> printed_policy_close(ps, c.exit_status, c.error, environ),
                logged |-> log_sgnl_client_destroy(ps.sgnl_client)]
         IN swapped([c.ps EXCEPT !.sgnl_client = ClientWithToken(@, tok)])
    [] c.op = "pam_sm_acct_mgmt" ->
         LET seen(client, file, r) ==
               [rc |-> r.rc, logger |-> r.logger,
                last_error |-> LastErrorOf(r.client), sent |-> Unauthorized(r.wire),
                logged |-> log_pam_sm_acct_mgmt(client, c.username, c.service, file,
                                                c.logger, now, c.curl)]
             swapped(client, file) ==
               seen(client, file,
                    pam_sm_acct_mgmt(client, c.username, c.service, file, c.logger,
                                     now, c.curl))
         IN swapped(ClientWithToken(c.client, tok), FileWithToken(c.file, tok))
    [] c.op = "sgnl_client_create" ->
         LET seen(file, r) ==
               [ret |-> r.client # NULL, logger |-> r.logger,
                last_error |-> IF r.client # NULL THEN LastErrorOf(r.client)
                               ELSE LastErrorOf(r.released),
                logged |-> log_sgnl_client_create(c.config, file, r)]
             swapped(file) == seen(file, sgnl_client_create(c.config, file, c.logger))
         IN swapped(FileWithToken(c.file, tok))
    [] c.op \in {"sgnl_client_destroy", "pam_module_cleanup"} ->
         [logged |-> log_sgnl_client_destroy(ClientWithToken(c.client, tok))]
    [] c.op = "sgnl_check_access" ->
         LET seen(r, e) ==
               [res |-> r.res, last_error |-> LastErrorOf(r.client),
                sent |-> Unauthorized(r.wire),
                logged |-> log_sgnl_evaluate_access(c.principal_id, c.asset_id,
                                                    c.curl, e)]
             swapped(client) ==
               seen(sgnl_check_access(client, c.principal_id, c.asset_id, c.action,
                                      now, c.curl),
                    sgnl_evaluate_access(client, c.principal_id, c.asset_id, c.action,
                                         now, c.curl))
         IN swapped(ClientWithToken(c.client, tok))
    [] c.op = "sgnl_evaluate_access" ->
         LET seen(r) ==
               [ret |-> r.ret, last_error |-> LastErrorOf(r.client),
                sent |-> Unauthorized(r.wire),
                logged |-> log_sgnl_evaluate_access(c.principal_id, c.asset_id,
                                                    c.curl, r)]
             swapped(client) ==
               seen(sgnl_evaluate_access(client, c.principal_id, c.asset_id, c.action,
                                         now, c.curl))
         IN swapped(ClientWithToken(c.client, tok))
    [] c.op = "sgnl_evaluate_access_batch" ->
         LET seen(client, r) ==
               [ret |-> r.ret, last_error |-> LastErrorOf(r.client),
                sent |-> Unauthorized(r.wire),
                logged |-> log_sgnl_evaluate_access_batch(
                             client, c.principal_id, c.asset_ids, c.actions,
                             c.query_count, c.curl, r)]
             swapped(client) ==
               seen(client,
                    sgnl_evaluate_access_batch(client, c.principal_id, c.asset_ids,
                                               c.actions, c.query_count, now, c.curl))
         IN swapped(ClientWithToken(c.client, tok))
    [] c.op = "sgnl_search_assets" ->
         LET seen(client, r) ==
               [ret |-> r.ret, asset_count |-> r.asset_count,
                last_error |-> LastErrorOf(r.client), sent |-> Unauthorized(r.wire),
                logged |-> log_sgnl_search_assets(client, c.principal_id, c.action,
                                                  c.asset_count, c.curl, r)]
             swapped(client) ==
               seen(client, sgnl_search_assets(client, c.principal_id, c.action,
                                               c.asset_count, c.curl))
         IN swapped(ClientWithToken(c.client, tok))
    [] c.op = "sgnl_config_load" ->
         LET seen(r) ==
               [rc |-> r.rc, last_error |-> r.config.last_error,
                initialized |-> r.config.initialized,
                logged |-> log_sgnl_config_load("test-module",
                                                "tests/test_config.json", r)]
         IN seen(sgnl_config_load(sgnl_config_create, c.strict_validation,
                                  FileWithToken(c.file, tok)))
    [] OTHER -> [logged |-> <<>>]

(* the call reads the token from a configuration file *)
ReadsToken(c) ==
  \/ c.op \in {"policy_open", "sgnl_client_create", "sgnl_config_load"}
  \/ c.op = "pam_sm_acct_mgmt" /\ c.client = NULL

(* the token the call was made with, NULLS when it had none *)
TokenOf(c) ==
  CASE ReadsToken(c) ->
         IF c.file.t = "object" /\ HasTyped(c.file, "api_token", "string")
         THEN json_object_get_string(json_object_object_get(c.file, "api_token"))
         ELSE NULLS
    [] c.op \in {"policy_check", "policy_init_session", "policy_close"} ->
         IF c.ps.sgnl_client = NULL THEN NULLS ELSE Deref(c.ps.sgnl_client).api_token
    [] c.op = "none" -> NULLS
    [] OTHER ->
         IF c.client = NULL THEN NULLS ELSE Deref(c.client).api_token

(* the call as it was made is the call made again with its own token *)
Replayed(c) ==
  /\ Observed(c, TokenOf(c)).logged = c.logged
  /\ "printed" \in DOMAIN c => Observed(c, TokenOf(c)).printed = c.printed

(* C13 as stated: whatever the token of a run is changed to, an empty token
   included where the call reads the token from the configuration file, every
   logger message, the last-error string, every result and its
   error_message, and every errstr or line printed stay the same *)
C13_TokenNeverObserved ==
  (call.op # "none" /\ TokenOf(call) # NULLS) =>
    \A tok \in (IF ReadsToken(call) THEN TokenValuesOrEmpty ELSE TokenValues) :
      Observed(call, tok) = Observed(call, TokenOf(call))

(* C13 amended: two runs whose tokens are both non-empty give the host the
   same logger messages, last-error strings, results, error_messages,
   errstr and printed lines; an empty token is told from a non-empty one *)
C13_TokenValueNeverObserved ==
  (call.op # "none" /\ TokenOf(call) \notin {NULLS, ""}) =>
    /\ Replayed(call)
    /\ \A tok \in TokenValues : Observed(call, tok) = Observed(call, TokenOf(call))

(* a client with debug logging on has sent a request that carried the token
   and logged the request and the response *)
C13_Witness ==
  /\ call.op = "sgnl_evaluate_access"
  /\ call.client # NULL
  /\ Deref(call.client).debug_enabled
  /\ Len(call.ret.wire) = 1
  /\ call.ret.wire[1].authorization = "Bearer " \o TokenOf(call)
  /\ \E k \in 1..Len(call.logged) :
       call.logged[k].level = SGNL_LOG_DEBUG
       /\ HasPrefix(call.logged[k].text, "Request body: ")
  /\ TokenOf(call) = "secret-token"


(***************************************************************************)
(* C21.  Loading a configuration document.                                 *)
(***************************************************************************)

(* a valid document: one that a fresh configuration object loads under
   strict validation *)
ValidDocument(file) ==
  sgnl_config_load(sgnl_config_create, TRUE, file).rc = SGNL_CONFIG_OK

(* a valid document has just been loaded into the object the program holds *)
LoadedValid ==
  /\ call.op = "sgnl_config_load"
  /\ "before" \in DOMAIN call
  /\ ValidDocument(call.file)

(* the settings of a configuration object: every field but the text of the
   last error *)
Settings(config) == [f \in DOMAIN config \ {"last_error"} |-> config[f]]

(* C21: sgnl_config_load is deterministic and idempotent: for every valid
   document the result code and the resulting settings are those of loading
   the document into a fresh object, whatever an earlier load left in the
   object, and loading the document a second time leaves the configuration
   unchanged *)
C21_LoadDependsOnDocumentOnly ==
  LoadedValid =>
    /\ call.rc = SGNL_CONFIG_OK
    /\ Settings(call.config)
         = Settings(sgnl_config_load(sgnl_config_create, call.strict_validation,
                                     call.file).config)
    /\ sgnl_config_load(call.config, call.strict_validation, call.file).config
         = call.config


(***************************************************************************)
(* C22.  sgnl_check_access and the one-element batch.                      *)
(***************************************************************************)

(* the result kind of a batch of one query: SGNL_ERROR when the batch gave
   no array or no result in its slot, else the result of the slot *)
Collapsed(batch) ==
  IF batch.ret = NULL THEN SGNL_ERROR
  ELSE IF Deref(batch.ret)[1] = NULL THEN SGNL_ERROR
  ELSE Deref(Deref(batch.ret)[1]).result

(* the batch of the one query (asset, action) with the same client,
   principal and response *)
SingleQueryBatch(c) ==
  sgnl_evaluate_access_batch(c.client, c.principal_id, Ptr(<<c.asset_id>>),
                             IF c.action = NULLS THEN NULL ELSE Ptr(<<c.action>>),
                             1, now, c.curl)

(* C22: sgnl_check_access returns the result kind that
   sgnl_evaluate_access_batch yields for the one-element batch of the same
   asset and action given the same response *)
C22_CheckIsCollapsedBatch ==
  call.op = "sgnl_check_access" => call.ret.res = Collapsed(SingleQueryBatch(call))


(***************************************************************************)
(* C23.  The request of policy_check.                                      *)
(***************************************************************************)

(* the principal policy_check resolves for the recorded call *)
CheckPrincipal ==
  get_current_username(call.ps.user_info, call.env.sudo_user, call.env.pw_name)

(* the queries the claim names for an argument vector: the command with the
   action "sudo", then every non-empty argument with the command as action *)
QueriesFor(argv) ==
  LET args == SelectSeq(SubSeq(argv, 2, Len(argv)), LAMBDA a : a # NULLS /\ a # "")
  IN <<[assetId |-> argv[1], action |-> "sudo"]>>
     \o [k \in 1..Len(args) |-> [assetId |-> args[k], action |-> argv[1]]]

(* policy_check was called with a command *)
CheckedCommand ==
  /\ call.op = "policy_check"
  /\ call.argc >= 1

(* the call gets as far as the access check and the transport can be set
   up: the three out parameters are given, the plugin holds a client, the
   principal is not empty and curl_easy_init succeeds *)
ReachesTransport ==
  /\ call.outs.command_info_out # NULL
  /\ call.outs.argv_out # NULL
  /\ call.outs.user_env_out # NULL
  /\ call.ps.sgnl_client # NULL
  /\ CheckPrincipal # ""
  /\ call.curl.kind # "init_fail"

(* C23 as stated: policy_check with a command and a resolved principal sends
   exactly one request, whose queries are the command with action "sudo"
   followed by each non-empty argument with the command as action *)
C23_OneRequest ==
  CheckedCommand =>
    /\ Len(call.ret.wire) = 1
    /\ SentQueries(call.ret) = QueriesFor(call.argv)

(* C23 amended: a policy_check that gets as far as the access check with a
   transport that can be set up sends exactly one request with those
   queries, and any other policy_check sends none *)
C23_OneRequestWhenChecked ==
  CheckedCommand =>
    IF ReachesTransport
    THEN /\ Len(call.ret.wire) = 1
         /\ SentQueries(call.ret) = QueriesFor(call.argv)
    ELSE call.ret.wire = <<>>

(* a command with two arguments and an empty one between them was checked
   in one request of three queries *)
C23_Witness ==
  /\ CheckedCommand
  /\ ReachesTransport
  /\ call.argv = <<"ls", "-l", "", "-a">>
  /\ Len(call.ret.wire) = 1
  /\ Len(SentQueries(call.ret)) = 3


(***************************************************************************)
(* C24.  A top-level error.message in the response.                        *)
(***************************************************************************)

(* the HTTP 200 response of the call carries a top-level error.message *)
ErrorMessageReceived ==
  /\ Evaluated
  /\ call.curl.kind = "ok"
  /\ call.curl.status = 200
  /\ call.curl.body.t = "object"
  /\ HasTyped(call.curl.body, "error", "object")
  /\ HasTyped(json_object_object_get(call.curl.body, "error"), "message", "string")

ErrorMessage ==
  json_object_get_string(
    json_object_object_get(json_object_object_get(call.curl.body, "error"), "message"))

(* a result of an error kind that carries the message of the response *)
ErrorWithMessage(result) ==
  /\ result.result \notin {SGNL_ALLOWED, SGNL_DENIED}
  /\ result.error_message = ErrorMessage

(* C24: a response body with a top-level error.message yields an error-kind
   result, never Allowed and never Denied, with that message attached, for
   the single evaluation and for every result of a batch evaluation, also
   when the body has a decisions array *)
C24_ErrorMessageOverrides ==
  ErrorMessageReceived =>
    CASE call.op = "sgnl_check_access" ->
           call.ret.res \notin {SGNL_ALLOWED, SGNL_DENIED}
      [] call.op = "sgnl_evaluate_access" ->
           call.ret.ret # NULL /\ ErrorWithMessage(Deref(call.ret.ret))
      [] OTHER ->
           call.ret.ret # NULL =>
             \A i \in 1..call.query_count :
               /\ Deref(call.ret.ret)[i] # NULL
               /\ ErrorWithMessage(Deref(Deref(call.ret.ret)[i]))


(***************************************************************************)
(* C25.  A response without a decision.                                    *)
(***************************************************************************)

(* an HTTP 200 response with a JSON object that has no top-level error *)
Answered ==
  /\ Evaluated
  /\ call.op # "sgnl_check_access"
  /\ call.curl.kind = "ok"
  /\ call.curl.status = 200
  /\ call.curl.body.t = "object"
  /\ ~json_object_object_get_ex(call.curl.body, "error")

(* the body has no decisions array *)
NoDecisionsArray ==
  ~HasTyped(call.curl.body, "decisions", "array")

(* the result the call gave for query i (from 1): NULL when there is none *)
ResultOf(i) ==
  IF call.op = "sgnl_evaluate_access" THEN call.ret.ret
  ELSE IF call.ret.ret = NULL THEN NULL
  ELSE Deref(call.ret.ret)[i]

QueryCount == IF call.op = "sgnl_evaluate_access" THEN 1 ELSE call.query_count

(* query i has no decision: there is no decisions array, the array has no
   entry at i, or the entry is an object without a decision string *)
WithoutDecision(i) ==
  \/ NoDecisionsArray
  \/ i > Len(Decisions(call.curl))
  \/ /\ Decisions(call.curl)[i].t = "object"
     /\ ~json_object_object_get_ex(Decisions(call.curl)[i], "decision")

(* C25: the absence of a decision means Denied: with HTTP 200, a body
   without a decisions array, a body with an empty decisions array and a
   decision entry without a decision string each give the result Denied,
   with an empty reason for the empty array, in sgnl_evaluate_access and in
   the slot of sgnl_evaluate_access_batch *)
C25_NoDecisionIsDenied ==
  Answered =>
    \A i \in 1..QueryCount :
      WithoutDecision(i) =>
        /\ ResultOf(i) # NULL
        /\ Deref(ResultOf(i)).result = SGNL_DENIED
        /\ (~NoDecisionsArray /\ Decisions(call.curl) = <<>>) =>
             Deref(ResultOf(i)).reason = ""


(***************************************************************************)
(* C26.  Failures and the client's last-error string.                      *)
(***************************************************************************)

(* sub occurs in s *)
Contains(s, sub) ==
  \E i \in 1..(Len(s) - Len(sub) + 1) : SubSeq(s, i, i + Len(sub) - 1) = sub

(* one of the four calls reached the transport *)
Requested ==
  \/ Evaluated
  \/ /\ call.op = "sgnl_search_assets"
     /\ call.client # NULL
     /\ call.principal_id # NULLS
     /\ call.asset_count # NULL

(* the request failed inside the client: the transport failed, the status
   was not 200, the body did not parse or had no decisions array *)
FailedInside ==
  \/ call.curl.kind \in {"init_fail", "perform_fail"}
  \/ /\ call.curl.kind = "ok"
     /\ \/ call.curl.status # 200
        \/ call.curl.body.t # "object"
        \/ ~HasTyped(call.curl.body, "decisions", "array")

(* C26: every failure inside the authorization client during
   sgnl_check_access, sgnl_evaluate_access, sgnl_evaluate_access_batch or
   sgnl_search_assets is recorded in the client's last-error string before
   the call returns, and after a 401 response sgnl_client_get_last_error
   reports the HTTP 401 *)
C26_FailureInLastError ==
  (Requested /\ FailedInside) =>
    /\ sgnl_client_get_last_error(call.ret.client) # ""
    /\ (call.curl.kind = "ok" /\ call.curl.status = 401) =>
         Contains(sgnl_client_get_last_error(call.ret.client), "401")


(***************************************************************************)
(* C27.  The principal of the sudo adapter.                                *)
(***************************************************************************)

(* the user= entries of user_info, in order, without the prefix *)
UserEntries(user_info) ==
  IF user_info = NULL THEN <<>>
  ELSE [k \in 1..Len(SelectSeq(Deref(user_info), LAMBDA e : HasPrefix(e, "user="))) |->
          LET e == SelectSeq(Deref(user_info), LAMBDA x : HasPrefix(x, "user="))[k]
          IN SubSeq(e, 6, Len(e))]

(* the principal by strict preference: the user= entry when there is one,
   else SUDO_USER, else the password database name, else "unknown" *)
PreferredPrincipal(user_info, env) ==
  IF UserEntries(user_info) # <<>> THEN UserEntries(user_info)[1]
  ELSE IF env.sudo_user # NULLS THEN env.sudo_user
  ELSE IF env.pw_name # NULLS THEN env.pw_name
  ELSE "unknown"

(* policy_check sent a request *)
CheckRequested ==
  /\ call.op = "policy_check"
  /\ call.ret.wire # <<>>

(* C27: the sudo adapter asks for the principal of strict preference: the
   user= entry of user_info whenever there is one, else SUDO_USER, else the
   password database name, else "unknown"; SUDO_USER is never used when
   user_info has a user= entry *)
C27_PrincipalPreference ==
  CheckRequested =>
    call.ret.wire[1].body.principal.id
      = PreferredPrincipal(call.ps.user_info, call.env)


(***************************************************************************)
(* C28.  The process-wide logger after sgnl_client_create.                 *)
(***************************************************************************)

(* sgnl_client_create has just returned a client *)
ClientCreated ==
  /\ call.op = "sgnl_client_create"
  /\ call.ret # NULL

(* the level configured for a client: debug when its debug flag is set,
   else the level of the configuration, which is "info" for every
   configuration file of the model *)
ConfiguredLevel(client) ==
  IF client.debug_enabled THEN SGNL_LOG_DEBUG ELSE SGNL_LOG_INFO

(* C28: every successful sgnl_client_create leaves the process-wide logger
   at the level configured for the client it created, whatever clients were
   created and destroyed before, so a client configured without debug never
   leaves debug messages enabled *)
C28_LoggerFollowsClient ==
  ClientCreated =>
    sgnl_logger_config.min_level = ConfiguredLevel(Deref(call.ret))


(***************************************************************************)
(* C29.  The "Access granted" line of policy_check.                        *)
(***************************************************************************)

(* policy_check printed the access-granted line *)
GrantedPrinted ==
  /\ call.op = "policy_check"
  /\ \E k \in 1..Len(call.ret.printed) :
       HasPrefix(call.ret.printed[k].message, "SGNL: Access granted for ")

(* C29: policy_check prints the "Access granted" line only in invocations
   that return ACCEPT, and only when access_msg is enabled; an invocation
   that ends in REJECT or ERROR never prints it *)
C29_GrantedOnlyOnAccept ==
  GrantedPrinted =>
    /\ call.ret.rc = SUDO_RC_ACCEPT
    /\ call.ps.config.access_msg_enabled


(***************************************************************************)
(* C30.  The module-wide client of the PAM module.                         *)
(***************************************************************************)

(* what stays of a client from call to call: every field but the id of its
   last request and its last error *)
Held(client) ==
  [f \in DOMAIN client \ {"last_request_id", "last_error"} |-> client[f]]

(* pam_sm_acct_mgmt has just run with a user and a service *)
AcctChecked ==
  /\ call.op = "pam_sm_acct_mgmt"
  /\ call.username # NULLS
  /\ call.service # NULLS

(* a client the module holds was created and validates; none is held after
   the unload *)
HeldIsValid ==
  /\ pam_sgnl_client # NULL => sgnl_client_validate(pam_sgnl_client) = SGNL_OK
  /\ ~pam_loaded => pam_sgnl_client = NULL

(* a call that finds a client creates none, destroys none and leaves the
   same client *)
HeldIsReused ==
  (AcctChecked /\ call.client # NULL) =>
    /\ call.ret.created = 0
    /\ call.ret.released = <<>>
    /\ pam_sgnl_client # NULL
    /\ Held(Deref(pam_sgnl_client)) = Held(Deref(call.client))

(* a call that finds no client tries to create one: it either holds the new
   client afterwards, or creation failed and the client is still unset *)
UnsetIsRetried ==
  (AcctChecked /\ call.client = NULL) =>
    \/ /\ call.ret.created = 1
       /\ call.ret.released = <<>>
       /\ pam_sgnl_client # NULL
    \/ /\ call.ret.created = 0
       /\ Len(call.ret.released) = 1
       /\ pam_sgnl_client = NULL

(* the unload destroys the client the module holds, once *)
UnloadDestroys ==
  call.op = "pam_module_cleanup" =>
    /\ Len(call.released) = (IF call.client # NULL THEN 1 ELSE 0)
    /\ pam_sgnl_client = NULL

(* the module gives up a client it holds in the unload only *)
GivenUpAtUnload ==
  (pam_sgnl_client # NULL /\ pam_sgnl_client' = NULL) =>
    call'.op = "pam_module_cleanup"

(* C30: across the pam_sm_acct_mgmt calls of one process the module-wide
   client is non-NULL only if it was created and validated; a client that is
   held is reused by every later call and no second one is created; a failed
   initialization leaves the client unset and the next call tries again; the
   client is destroyed at most once, at the unload of the module *)
C30_LazyClient ==
  /\ [](HeldIsValid /\ HeldIsReused /\ UnsetIsRetried /\ UnloadDestroys)
  /\ [][GivenUpAtUnload]_vars

(* a second pam_sm_acct_mgmt found the client of an earlier call and used
   it for its request *)
C30_Witness ==
  /\ AcctChecked
  /\ call.client # NULL
  /\ call.ret.created = 0
  /\ Len(call.ret.wire) = 1
  /\ pam_sgnl_client # NULL

====
